---- MODULE Spec2Model ----
(***************************************************************************)
(* Model of the projection-and-availability pipeline of the fantasy        *)
(* football valuation engine: the injury gate, the Sleeper availability    *)
(* fetcher with its snapshot fallback, the availability filter stages of   *)
(* the projection engine and the statistical position projector.           *)
(*                                                                         *)
(* The module holds several specifications over one set of variables:      *)
(*   SpecGate   the pure functions of models/injury_gate.py                *)
(*   SpecFetch  repeated fetch cycles of data/sleeper_injuries.py          *)
(*   Spec       one weekly request's availability filter pipeline          *)
(*   SpecProj   fit / predict of models/base_projector.py                  *)
(* Each specification leaves the variables of the others at their idle     *)
(* values.                                                                 *)
(***************************************************************************)
EXTENDS Integers, Sequences, FiniteSets, TLC

VARIABLES
    \* ---- injury gate (SpecGate)
    g_status,        \* argument status of decision_from_fields
    g_injury,        \* argument injury_status of decision_from_fields
    g_out,           \* "idle" before the call, then the value returned
    g_points,        \* argument points of apply_injury_gate
    g_adj,           \* the applications of apply_injury_gate made so far
    g_summary,       \* the last call of get_injury_summary: its argument and result
    \* ---- availability fetcher (SpecFetch, Spec)
    now,             \* wall clock, in hours
    snapshot,        \* content of players_snapshot.json
    ir_cache,        \* content of ir_players_2025.json
    cycle,           \* what the last get_injury_data_with_cache call did
    live,            \* what the fetch that wrote the current snapshot returned
    \* ---- filter pipeline (Spec)
    pc,              \* position of the weekly request in the pipeline
    table,           \* the projections DataFrame, a sequence of rows
    cfg,             \* engine flags, target week and schedule of the request
    last,            \* record of the filter stage that returned last
    order,           \* the stages that have run, in the order they ran
    \* ---- position projector (SpecProj)
    position,        \* StatisticalProjector.position
    model_params,    \* StatisticalProjector.model_params
    is_trained,      \* StatisticalProjector.is_trained
    p_in,            \* arguments of the last predict call
    p_out,           \* its result
    \* ---- projection engine (SpecEngine)
    is_fitted,       \* ProjectionEngine._is_fitted
    cached_training_data,  \* ProjectionEngine._training_data
    projectors,      \* ProjectionEngine.projectors: trained flag and parameters
    request,         \* the last public call made on the engine and its outcome
    \* ---- identity mapper (SpecMapper)
    mapping_file,    \* data/player_id_mapping.csv as csv.DictReader reads it
    mapper,          \* the PlayerIDMapper constructed from it
    lookup,          \* the last id looked up in the mapper and the answers
    \* ---- scoring (SpecScoring)
    sc_name,         \* the scoring_system argument of ProjectionEngine(...)
    sc_system,       \* ProjectionEngine.scoring_system, or the error of the constructor
    sc_stats,        \* the stats argument of calculate_fantasy_points
    sc_points        \* what calculate_fantasy_points returned

gateVars == <<g_status, g_injury, g_out, g_points, g_adj, g_summary>>
fetchVars == <<now, snapshot, ir_cache, cycle, live>>
pipeVars == <<pc, table, cfg, last, order>>
projVars == <<position, model_params, is_trained, p_in, p_out>>
engVars == <<is_fitted, cached_training_data, projectors, request>>
mapVars == <<mapping_file, mapper, lookup>>
scoreVars == <<sc_name, sc_system, sc_stats, sc_points>>
vars == <<g_status, g_injury, g_out, g_points, g_adj, g_summary, now, snapshot, ir_cache, cycle, live,
          pc, table, cfg, last, order,
          position, model_params, is_trained, p_in, p_out,
          is_fitted, cached_training_data, projectors, request,
          mapping_file, mapper, lookup, sc_name, sc_system, sc_stats, sc_points>>

(***************************************************************************)
(* Python values.  A str is a sequence of one-character strings, so that   *)
(* str.upper() is computed character by character.                         *)
(***************************************************************************)
PyNone == [t |-> "None"]
PyStr(s) == [t |-> "str", v |-> s]
PyInt(n) == [t |-> "int", v |-> n]

EmptyStr == PyStr(<< >>)

\* bool(x) of a Python value
Truthy(x) ==
    CASE x.t = "None" -> FALSE
      [] x.t = "str" -> Len(x.v) > 0
      [] x.t = "int" -> x.v # 0
      [] x.t = "dict" -> DOMAIN x.v # {}
      [] OTHER -> TRUE

\* the Python expression (x or d)
PyOr(x, d) == IF Truthy(x) THEN x ELSE d

LowerCase == << "a", "b", "c", "d", "e", "f", "g", "h", "i", "j", "k", "l", "m",
                "n", "o", "p", "q", "r", "s", "t", "u", "v", "w", "x", "y", "z" >>
UpperCase == << "A", "B", "C", "D", "E", "F", "G", "H", "I", "J", "K", "L", "M",
                "N", "O", "P", "Q", "R", "S", "T", "U", "V", "W", "X", "Y", "Z" >>

upper_char(c) ==
    IF \E i \in DOMAIN LowerCase : LowerCase[i] = c
    THEN UpperCase[CHOOSE i \in DOMAIN LowerCase : LowerCase[i] = c]
    ELSE c

\* str.upper() on the characters of a str
upper(s) == [i \in 1..Len(s) |-> upper_char(s[i])]

(***************************************************************************)
(* String literals of the source and of the inputs.                        *)
(***************************************************************************)
S_IR == << "I", "R" >>
S_PUP == << "P", "U", "P" >>
S_NFI == << "N", "F", "I" >>
S_SUSPENDED == << "S", "U", "S", "P", "E", "N", "D", "E", "D" >>
S_INACTIVE == << "I", "N", "A", "C", "T", "I", "V", "E" >>
S_PRACTICE_SQUAD == << "P", "R", "A", "C", "T", "I", "C", "E", " ", "S", "Q", "U", "A", "D" >>
S_OUT == << "O", "U", "T" >>
S_DOUBTFUL == << "D", "O", "U", "B", "T", "F", "U", "L" >>
S_QUESTIONABLE == << "Q", "U", "E", "S", "T", "I", "O", "N", "A", "B", "L", "E" >>

S_ir == << "i", "r" >>
S_Pup == << "P", "u", "p" >>
S_nfi == << "n", "f", "i" >>
S_Suspended == << "S", "u", "s", "p", "e", "n", "d", "e", "d" >>
S_Inactive == << "I", "n", "a", "c", "t", "i", "v", "e" >>
S_Practice_Squad == << "P", "r", "a", "c", "t", "i", "c", "e", " ", "S", "q", "u", "a", "d" >>
S_PRACTICE_underscore_SQUAD == << "P", "R", "A", "C", "T", "I", "C", "E", "_", "S", "Q", "U", "A", "D" >>
S_practice_underscore_squad == << "p", "r", "a", "c", "t", "i", "c", "e", "_", "s", "q", "u", "a", "d" >>
S_Active == << "A", "c", "t", "i", "v", "e" >>
S_Out == << "O", "u", "t" >>
S_out == << "o", "u", "t" >>
S_Doubtful == << "D", "o", "u", "b", "t", "f", "u", "l" >>
S_Questionable == << "Q", "u", "e", "s", "t", "i", "o", "n", "a", "b", "l", "e" >>
S_Probable == << "P", "r", "o", "b", "a", "b", "l", "e" >>
S_IR_padded == << " ", "I", "R" >>
S_OUTS == << "O", "U", "T", "S" >>

(***************************************************************************)
(* models/injury_gate.py                                                   *)
(***************************************************************************)
\* the list of line 24
LongTermAbsence == { S_IR, S_PUP, S_NFI, S_SUSPENDED, S_INACTIVE, S_PRACTICE_SQUAD }
\* the list of line 28
GameAbsence == { S_OUT, S_DOUBTFUL, S_IR, S_PUP }

\* lines 20-21: (x or "").upper() if x is not None else ""; a value that is
\* truthy and no str has no upper() and raises AttributeError
upper_or_empty(x) ==
    LET y == IF x.t # "None" THEN PyOr(x, EmptyStr) ELSE EmptyStr
    IN  IF y.t = "str" THEN PyStr(upper(y.v)) ELSE [t |-> "AttributeError"]

\* a gate that compares the roster status as it is written
decision_from_fields_case_sensitive(status, injury_status) ==
    LET status_upper == IF status.t = "str" THEN status ELSE EmptyStr
        injury_status_upper == upper_or_empty(injury_status)
    IN  IF injury_status_upper.t # "str" THEN "AttributeError"
        ELSE IF status_upper.v \in LongTermAbsence THEN "zero"
        ELSE IF injury_status_upper.v \in GameAbsence THEN "zero"
        ELSE "pass"

\* a gate that also zeroes questionable players
decision_from_fields_questionable(status, injury_status) ==
    LET status_upper == upper_or_empty(status)
        injury_status_upper == upper_or_empty(injury_status)
    IN  IF status_upper.t # "str" \/ injury_status_upper.t # "str" THEN "AttributeError"
        ELSE IF status_upper.v \in LongTermAbsence THEN "zero"
        ELSE IF injury_status_upper.v \in GameAbsence \cup { S_QUESTIONABLE } THEN "zero"
        ELSE "pass"

decision_from_fields(status, injury_status) ==
    LET status_upper == upper_or_empty(status)
        injury_status_upper == upper_or_empty(injury_status)
    IN  IF status_upper.t # "str" \/ injury_status_upper.t # "str" THEN "AttributeError"
        ELSE IF status_upper.v \in LongTermAbsence THEN "zero"
        ELSE IF injury_status_upper.v \in GameAbsence THEN "zero"
        ELSE "pass"

(***************************************************************************)
(* data/sleeper_injuries.py                                                *)
(*                                                                         *)
(* A JSON document is a Python value: a dict [t |-> "dict", v |-> f] with  *)
(* f a function on its keys, a list, None (null), a str or an int.  Of a   *)
(* player record the model keeps the keys status, injury_status and        *)
(* depth_chart_order, the ones the filters read.                           *)
(***************************************************************************)
PyDict(f) == [t |-> "dict", v |-> f]
PyList == [t |-> "list"]
EmptyDict == PyDict(<< >>)

\* line 38
max_retries == 2
\* line 39: backoff_factor = 0.5 seconds, counted in half seconds
backoff_factor == 1
\* line 140: timedelta(hours=24)
SNAPSHOT_MAX_AGE_HOURS == 24

\* d.get(key, default) of a dict
dict_get(d, key, default) == IF key \in DOMAIN d.v THEN d.v[key] ELSE default

\* len(x) is defined for dict, list and str and raises TypeError otherwise
has_len(x) == x.t \in {"dict", "list", "str"}

\* datetime.isoformat() and datetime.fromisoformat(): the text keeps the instant
isoformat(t) == [iso |-> t]
fromisoformat(text) == text.iso

\* json.dump / json.load of a document that came from json: the text keeps it
json_dump(doc) == [json |-> doc]
json_load(text) == text.json

\* A file is absent, holds a json text, or holds something json.load rejects.
AbsentFile == [state |-> "absent"]
CorruptFile == [state |-> "corrupt"]
TextFile(text) == [state |-> "text", text |-> text]

\* What a write can do: succeed; fail in open(), leaving the file as it was;
\* fail in json.dump after open(.., 'w') truncated the file.
WriteOutcomes == {"ok", "open_fails", "dump_fails"}

\* a snapshot writer that stamps nothing it can later parse
save_players_snapshot_no_data(file, data, t, outcome) ==
    CASE outcome = "ok" ->
            TextFile(json_dump(PyDict([timestamp |-> isoformat(t), data |-> EmptyDict])))
      [] outcome = "open_fails" -> file
      [] OTHER -> CorruptFile

\* lines 117-127: _save_players_snapshot; every exception is caught
save_players_snapshot(file, data, t, outcome) ==
    CASE outcome = "ok" ->
            TextFile(json_dump(PyDict([timestamp |-> isoformat(t), data |-> data])))
      [] outcome = "open_fails" -> file
      [] OTHER -> CorruptFile

\* a snapshot reader that does not look at the age of the snapshot
load_players_snapshot_any_age(file, t) ==
    IF file.state = "absent" THEN PyNone
    ELSE IF file.state = "corrupt" THEN PyNone
    ELSE json_load(file.text).v.data

\* lines 129-149: _load_players_snapshot; None when the file is absent,
\* unreadable or older than 24 hours
load_players_snapshot(file, t) ==
    IF file.state = "absent" THEN PyNone
    ELSE IF file.state = "corrupt" THEN PyNone
    ELSE LET snap == json_load(file.text)
             timestamp == fromisoformat(snap.v.timestamp)
         IN  IF t - timestamp > SNAPSHOT_MAX_AGE_HOURS THEN PyNone
             ELSE snap.v.data

\* lines 151-161: _save_ir_cache
save_ir_cache(file, ir_players, t, outcome) ==
    CASE outcome = "ok" ->
            TextFile(json_dump(PyDict([timestamp |-> isoformat(t), ir_players |-> ir_players])))
      [] outcome = "open_fails" -> file
      [] OTHER -> CorruptFile

\* lines 163-176: _load_ir_cache
load_ir_cache(file) ==
    IF file.state # "text" THEN {} ELSE json_load(file.text).v.ir_players

\* lines 70-96: normalize_player_data; raw_data.items() raises AttributeError
\* when the payload is no dict; a record that is no dict is skipped; a missing
\* key becomes '' (None for depth_chart_order)
normalize_player_data(raw_data) ==
    IF raw_data.t # "dict" THEN [t |-> "AttributeError"]
    ELSE LET kept == { k \in DOMAIN raw_data.v : raw_data.v[k].t = "dict" }
         IN  PyDict([k \in kept |->
                 PyDict([id |-> k,
                         status |-> dict_get(raw_data.v[k], "status", EmptyStr),
                         injury_status |-> dict_get(raw_data.v[k], "injury_status", EmptyStr),
                         depth_chart_order |->
                             dict_get(raw_data.v[k], "depth_chart_order", PyNone)])])

\* lines 98-115: get_ir_players; (status or '').upper() raises AttributeError
\* on a status that is truthy and no str
IR_LIKE == { S_IR, S_PUP, S_NFI, S_SUSPENDED }
get_ir_players(normalized_data) ==
    LET d == normalized_data.v
        st(k) == PyOr(dict_get(d[k], "status", EmptyStr), EmptyStr)
    IN  IF \E k \in DOMAIN d : st(k).t # "str" THEN [t |-> "AttributeError"]
        ELSE [t |-> "set", v |-> { k \in DOMAIN d : upper(st(k).v) \in IR_LIKE }]

\* The remote endpoint in one attempt: requests raises RequestException, or
\* the response parses to a json document.
RequestException == [t |-> "RequestException"]
Response(doc) == [t |-> "response", json |-> doc]

\* a loop that waits backoff_factor after every failed attempt
RECURSIVE fetch_loop_flat_backoff(_, _, _, _, _, _)
fetch_loop_flat_backoff(attempt, responses, file, t, save_outcome, sleeps) ==
    IF responses[attempt].t = "RequestException"
    THEN IF attempt < max_retries
         THEN fetch_loop_flat_backoff(attempt + 1, responses, file, t, save_outcome,
                                      Append(sleeps, backoff_factor))
         ELSE [raised |-> "no", ret |-> PyNone, attempts |-> attempt + 1,
               sleeps |-> sleeps, snapshot |-> file]
    ELSE LET data == responses[attempt].json
         IN  IF ~has_len(data)
             THEN [raised |-> "TypeError", ret |-> PyNone, attempts |-> attempt + 1,
                   sleeps |-> sleeps, snapshot |-> file]
             ELSE [raised |-> "no", ret |-> data, attempts |-> attempt + 1,
                   sleeps |-> sleeps,
                   snapshot |-> save_players_snapshot(file, data, t, save_outcome)]

\* lines 41-68: fetch_players_raw from attempt on; responses[a] is what the
\* endpoint does in attempt a.  len(data) raises TypeError, which the except
\* clause (RequestException only) does not catch.
RECURSIVE fetch_loop(_, _, _, _, _, _)
fetch_loop(attempt, responses, file, t, save_outcome, sleeps) ==
    IF responses[attempt].t = "RequestException"
    THEN IF attempt < max_retries
         THEN fetch_loop(attempt + 1, responses, file, t, save_outcome,
                         Append(sleeps, backoff_factor * (2 ^ attempt)))
         ELSE [raised |-> "no", ret |-> PyNone, attempts |-> attempt + 1,
               sleeps |-> sleeps, snapshot |-> file]
    ELSE LET data == responses[attempt].json
         IN  IF ~has_len(data)
             THEN [raised |-> "TypeError", ret |-> PyNone, attempts |-> attempt + 1,
                   sleeps |-> sleeps, snapshot |-> file]
             ELSE [raised |-> "no", ret |-> data, attempts |-> attempt + 1,
                   sleeps |-> sleeps,
                   snapshot |-> save_players_snapshot(file, data, t, save_outcome)]

fetch_players_raw(responses, file, t, save_outcome) ==
    fetch_loop(0, responses, file, t, save_outcome, << >>)

\* a cycle in which a failed write of the snapshot or of the cache raises
get_injury_data_with_cache_write_raises(responses, file, cache, t, save_outcome, cache_outcome) ==
    LET f == fetch_players_raw(responses, file, t, save_outcome)
        base == [raised |-> "no", ret |-> EmptyDict, source |-> "none",
                 attempts |-> f.attempts, sleeps |-> f.sleeps,
                 snapshot_read |-> FALSE, snapshot |-> f.snapshot, ir_cache |-> cache]
    IN  IF f.raised # "no" THEN [base EXCEPT !.raised = f.raised, !.source = "live"]
        ELSE IF f.ret # PyNone
        THEN IF save_outcome # "ok" \/ cache_outcome # "ok"
             THEN [base EXCEPT !.raised = "OSError", !.source = "live"]
             ELSE
             LET normalized_data == normalize_player_data(f.ret)
             IN  IF normalized_data.t # "dict"
                 THEN [base EXCEPT !.raised = normalized_data.t, !.source = "live"]
                 ELSE LET ir_players == get_ir_players(normalized_data)
                      IN  IF ir_players.t # "set"
                          THEN [base EXCEPT !.raised = ir_players.t, !.source = "live"]
                          ELSE [base EXCEPT !.ret = normalized_data, !.source = "live",
                                   !.ir_cache = save_ir_cache(cache, ir_players.v, t,
                                                              cache_outcome)]
        ELSE LET raw_data == load_players_snapshot(file, t)
             IN  IF raw_data # PyNone
                 THEN LET normalized_data == normalize_player_data(raw_data)
                      IN  IF normalized_data.t # "dict"
                          THEN [base EXCEPT !.raised = normalized_data.t,
                                   !.source = "snapshot", !.snapshot_read = TRUE]
                          ELSE [base EXCEPT !.ret = normalized_data,
                                   !.source = "snapshot", !.snapshot_read = TRUE]
                 ELSE [base EXCEPT !.snapshot_read = TRUE]

\* lines 178-212: get_injury_data_with_cache.  The result tells what the call
\* returned or raised, where the data came from, and the files it left.
get_injury_data_with_cache(responses, file, cache, t, save_outcome, cache_outcome) ==
    LET f == fetch_players_raw(responses, file, t, save_outcome)
        base == [raised |-> "no", ret |-> EmptyDict, source |-> "none",
                 attempts |-> f.attempts, sleeps |-> f.sleeps,
                 snapshot_read |-> FALSE, snapshot |-> f.snapshot, ir_cache |-> cache]
    IN  IF f.raised # "no" THEN [base EXCEPT !.raised = f.raised, !.source = "live"]
        ELSE IF f.ret # PyNone
        THEN \* fresh fetch succeeded
             LET normalized_data == normalize_player_data(f.ret)
             IN  IF normalized_data.t # "dict"
                 THEN [base EXCEPT !.raised = normalized_data.t, !.source = "live"]
                 ELSE LET ir_players == get_ir_players(normalized_data)
                      IN  IF ir_players.t # "set"
                          THEN [base EXCEPT !.raised = ir_players.t, !.source = "live"]
                          ELSE [base EXCEPT !.ret = normalized_data, !.source = "live",
                                   !.ir_cache = save_ir_cache(cache, ir_players.v, t,
                                                              cache_outcome)]
        ELSE \* fresh fetch failed
             LET raw_data == load_players_snapshot(file, t)
             IN  IF raw_data # PyNone
                 THEN LET normalized_data == normalize_player_data(raw_data)
                      IN  IF normalized_data.t # "dict"
                          THEN [base EXCEPT !.raised = normalized_data.t,
                                   !.source = "snapshot", !.snapshot_read = TRUE]
                          ELSE [base EXCEPT !.ret = normalized_data,
                                   !.source = "snapshot", !.snapshot_read = TRUE]
                 ELSE [base EXCEPT !.snapshot_read = TRUE]

(***************************************************************************)
(* models/injury_gate.py, continued                                        *)
(***************************************************************************)
\* a gate that looks at the roster status only
apply_injury_gate_roster_only(points, status, injury_status) ==
    LET decision == decision_from_fields(status, EmptyStr)
    IN  IF decision \notin {"zero", "pass"} THEN [raised |-> decision, v |-> 0]
        ELSE IF decision = "zero" THEN [raised |-> "no", v |-> 0]
        ELSE [raised |-> "no", v |-> points]

\* lines 36-52: apply_injury_gate; an exception of the decision propagates
apply_injury_gate(points, status, injury_status) ==
    LET decision == decision_from_fields(status, injury_status)
    IN  IF decision \notin {"zero", "pass"} THEN [raised |-> decision, v |-> 0]
        ELSE IF decision = "zero" THEN [raised |-> "no", v |-> 0]
        ELSE [raised |-> "no", v |-> points]

\* a summary that counts a questionable record whether it is zeroed or not
get_injury_summary_if_for_elif(injury_data) ==
    LET d == injury_data.v
        status(k) == PyOr(dict_get(d[k], "status", EmptyStr), EmptyStr)
        injury_status(k) == PyOr(dict_get(d[k], "injury_status", EmptyStr), EmptyStr)
        decision(k) == decision_from_fields(status(k), injury_status(k))
        zeroed == { k \in DOMAIN d : decision(k) = "zero" }
        questionable == { k \in DOMAIN d : upper(injury_status(k).v) = S_QUESTIONABLE }
    IN  IF \E k \in DOMAIN d : decision(k) \notin {"zero", "pass"}
        THEN [raised |-> "AttributeError"]
        ELSE [raised |-> "no",
              zeroed |-> Cardinality(zeroed),
              questionable |-> Cardinality(questionable),
              active |-> Cardinality((DOMAIN d \ zeroed) \ questionable),
              total |-> Cardinality(DOMAIN d)]

\* lines 55-84: get_injury_summary over the normalized records
get_injury_summary(injury_data) ==
    LET d == injury_data.v
        status(k) == PyOr(dict_get(d[k], "status", EmptyStr), EmptyStr)
        injury_status(k) == PyOr(dict_get(d[k], "injury_status", EmptyStr), EmptyStr)
        decision(k) == decision_from_fields(status(k), injury_status(k))
        zeroed == { k \in DOMAIN d : decision(k) = "zero" }
        questionable == { k \in DOMAIN d \ zeroed :
                            upper(injury_status(k).v) = S_QUESTIONABLE }
    IN  IF \E k \in DOMAIN d : decision(k) \notin {"zero", "pass"}
        THEN [raised |-> "AttributeError"]
        ELSE [raised |-> "no",
              zeroed |-> Cardinality(zeroed),
              questionable |-> Cardinality(questionable),
              active |-> Cardinality((DOMAIN d \ zeroed) \ questionable),
              total |-> Cardinality(DOMAIN d)]

(***************************************************************************)
(* data/player_mapping.py: the mapper the filters look ids up in.          *)
(***************************************************************************)
\* the dict gsis_to_sleeper after _load_mapping: g3 has no row in the table
gsis_to_sleeper == [g1 |-> "s1", g2 |-> "s2"]

\* a mapper that answers an unknown id with the first entry of its table
gsis_to_sleeper_id_first_entry(gsis_id) ==
    IF gsis_id \in DOMAIN gsis_to_sleeper
    THEN [t |-> "id", v |-> gsis_to_sleeper[gsis_id]]
    ELSE [t |-> "id", v |-> gsis_to_sleeper["g1"]]

\* lines 47-56: gsis_to_sleeper_id, None when the id has no mapping
gsis_to_sleeper_id(gsis_id) ==
    IF gsis_id \in DOMAIN gsis_to_sleeper
    THEN [t |-> "id", v |-> gsis_to_sleeper[gsis_id]]
    ELSE PyNone

\* str.strip() on the characters of a str
strip(s) ==
    LET kept == { i \in DOMAIN s : s[i] # " " }
    IN  IF kept = {} THEN << >>
        ELSE SubSeq(s, CHOOSE i \in kept : \A j \in kept : i <= j,
                       CHOOSE i \in kept : \A j \in kept : j <= i)

\* d[k] = v on a dict
set_item(d, k, v) == [x \in DOMAIN d \cup {k} |-> IF x = k THEN v ELSE d[x]]

\* lines 21-22: the two dicts of a new mapper
NoMappings == [gsis_to_sleeper |-> << >>, sleeper_to_gsis |-> << >>, caught |-> "no"]

\* a loader that keeps the first row of an id and skips a row that repeats a
\* stats id or an availability id
RECURSIVE load_rows_first_wins(_, _, _)
load_rows_first_wins(rows, i, m) ==
    IF i > Len(rows) THEN m
    ELSE IF rows[i].gsis_id = PyNone \/ rows[i].sleeper_id = PyNone
    THEN [m EXCEPT !.caught = "AttributeError"]
    ELSE LET gsis_id == strip(rows[i].gsis_id.v)
             sleeper_id == strip(rows[i].sleeper_id.v)
         IN  IF /\ gsis_id # << >> /\ sleeper_id # << >>
                /\ gsis_id \notin DOMAIN m.gsis_to_sleeper
                /\ sleeper_id \notin DOMAIN m.sleeper_to_gsis
             THEN load_rows_first_wins(rows, i + 1,
                     [m EXCEPT !.gsis_to_sleeper = set_item(@, gsis_id, sleeper_id),
                               !.sleeper_to_gsis = set_item(@, sleeper_id, gsis_id)])
             ELSE load_rows_first_wins(rows, i + 1, m)

\* lines 33-39: the loop over the rows of the reader, from row i on.  A row
\* shorter than the header has None for the missing field (DictReader's
\* restval), and None.strip() raises AttributeError, which line 43 catches
\* after the loop is left
RECURSIVE load_rows(_, _, _)
load_rows(rows, i, m) ==
    IF i > Len(rows) THEN m
    ELSE IF rows[i].gsis_id = PyNone \/ rows[i].sleeper_id = PyNone
    THEN [m EXCEPT !.caught = "AttributeError"]
    ELSE LET gsis_id == strip(rows[i].gsis_id.v)
             sleeper_id == strip(rows[i].sleeper_id.v)
         IN  IF gsis_id # << >> /\ sleeper_id # << >>
             THEN load_rows(rows, i + 1,
                     [m EXCEPT !.gsis_to_sleeper = set_item(@, gsis_id, sleeper_id),
                               !.sleeper_to_gsis = set_item(@, sleeper_id, gsis_id)])
             ELSE load_rows(rows, i + 1, m)

\* lines 47-56: gsis_to_sleeper_id of a mapper, self.gsis_to_sleeper.get(gsis_id)
gsis_to_sleeper_get(self, gsis_id) ==
    IF gsis_id.t = "str" /\ gsis_id.v \in DOMAIN self.gsis_to_sleeper
    THEN PyStr(self.gsis_to_sleeper[gsis_id.v])
    ELSE PyNone

\* lines 58-67: sleeper_to_gsis_id, self.sleeper_to_gsis.get(sleeper_id)
sleeper_to_gsis_id(self, sleeper_id) ==
    IF sleeper_id.t = "str" /\ sleeper_id.v \in DOMAIN self.sleeper_to_gsis
    THEN PyStr(self.sleeper_to_gsis[sleeper_id.v])
    ELSE PyNone

\* lines 69-78: has_mapping, gsis_id in self.gsis_to_sleeper
has_mapping(self, gsis_id) ==
    gsis_id.t = "str" /\ gsis_id.v \in DOMAIN self.gsis_to_sleeper

\* lines 25-45: _load_mapping
load_mapping(file) ==
    IF file.state = "absent" THEN NoMappings
    ELSE load_rows(file.rows, 1, NoMappings)

(***************************************************************************)
(* data/nfl_data_loader.py: bye weeks from the schedule.                   *)
(***************************************************************************)
\* line 240: range(1, 19)
LAST_REGULAR_WEEK == 18
all_weeks == 1..LAST_REGULAR_WEEK

\* a bye week table that gives a team with several free weeks the first of them
get_team_bye_weeks_first_candidate(schedules) ==
    IF schedules.t # "games" THEN [raised |-> "Exception", v |-> << >>]
    ELSE LET home_teams == { g.home_team : g \in schedules.v }
             free(team) ==
                 { w \in all_weeks :
                     \A g \in schedules.v :
                         (g.home_team = team \/ g.away_team = team) => g.week # w }
             with_bye == { team \in home_teams : free(team) # {} }
         IN  [raised |-> "no",
              v |-> [team \in with_bye |->
                       CHOOSE w \in free(team) : \A o \in free(team) : w <= o]]

\* lines 224-267: get_team_bye_weeks; a schedule is the set of its games, or
\* cannot be loaded, and then the exception is raised again
get_team_bye_weeks(schedules) ==
    IF schedules.t # "games" THEN [raised |-> "Exception", v |-> << >>]
    ELSE LET home_teams == { g.home_team : g \in schedules.v }
             weeks_with_games(team) ==
                 { g.week : g \in { h \in schedules.v :
                                      h.home_team = team \/ h.away_team = team } }
             bye_week(team) == all_weeks \ weeks_with_games(team)
             with_bye == { team \in home_teams : Cardinality(bye_week(team)) = 1 }
         IN  [raised |-> "no",
              v |-> [team \in with_bye |-> CHOOSE w \in bye_week(team) : TRUE]]

(***************************************************************************)
(* models/projection_engine.py and temp_projection_engine_edit.py: the     *)
(* availability filters.  The DataFrame is a sequence of rows; a filter    *)
(* changes it in place, so what a filter returns after an exception is the *)
(* table as the statements before the exception left it.                   *)
(***************************************************************************)
\* a row zeroed that keeps its upper bound
zero_row_keeps_upper(row) ==
    [row EXCEPT !.projected_points = 0, !.confidence_lower = 0]

\* lines 407-409, 480-482 and lines 103-105 of the edit: the three statements
\* that zero a row
zero_row(row) ==
    [row EXCEPT !.projected_points = 0, !.confidence_lower = 0, !.confidence_upper = 0]

\* a bye week filter that removes the rows of the teams on bye
apply_bye_week_filter_drop(projections_df, week, schedules) ==
    LET bye_weeks == get_team_bye_weeks(schedules)
    IN  IF bye_weeks.raised # "no"
        THEN [df |-> projections_df, caught |-> bye_weeks.raised, zeroed_count |-> 0]
        ELSE [df |-> SelectSeq(projections_df,
                               LAMBDA row : ~( /\ row.team \in DOMAIN bye_weeks.v
                                               /\ bye_weeks.v[row.team] = week )),
              caught |-> "no", zeroed_count |-> 0]

\* lines 381-419: _apply_bye_week_filter
apply_bye_week_filter(projections_df, week, schedules) ==
    LET bye_weeks == get_team_bye_weeks(schedules)
    IN  IF bye_weeks.raised # "no"
        THEN [df |-> projections_df, caught |-> bye_weeks.raised, zeroed_count |-> 0]
        ELSE LET teams_on_bye == { team \in DOMAIN bye_weeks.v : bye_weeks.v[team] = week }
                 bye_mask == { i \in DOMAIN projections_df :
                                 projections_df[i].team \in teams_on_bye }
             IN  [df |-> [i \in DOMAIN projections_df |->
                            IF i \in bye_mask THEN zero_row(projections_df[i])
                            ELSE projections_df[i]],
                  caught |-> "no", zeroed_count |-> Cardinality(bye_mask)]

\* lines 446-448: the three columns the injury filter adds to every row
add_injury_columns(df) ==
    [i \in DOMAIN df |->
        [injury_status |-> EmptyStr, roster_status |-> EmptyStr,
         points_adj |-> df[i].projected_points] @@ df[i]]

\* a loop that zeroes and counts a row of a zeroed player whatever its estimate
RECURSIVE injury_loop_counts_zero_rows(_, _, _, _)
injury_loop_counts_zero_rows(df, i, injury_data, zeroed_count) ==
    IF i > Len(df) THEN [df |-> df, raised |-> "no", zeroed_count |-> zeroed_count]
    ELSE
    LET row == df[i]
        gsis_id == row.player_id
        sleeper_id == gsis_to_sleeper_id(gsis_id)
    IN  IF gsis_id = "" THEN injury_loop_counts_zero_rows(df, i + 1, injury_data, zeroed_count)
        ELSE IF ~Truthy(sleeper_id)
        THEN injury_loop_counts_zero_rows(df, i + 1, injury_data, zeroed_count)
        ELSE
        LET player_injury_data ==
                IF sleeper_id.v \in DOMAIN injury_data.v THEN injury_data.v[sleeper_id.v]
                ELSE EmptyDict
            status == PyOr(dict_get(player_injury_data, "status", EmptyStr), EmptyStr)
            injury_status ==
                PyOr(dict_get(player_injury_data, "injury_status", EmptyStr), EmptyStr)
            stored == [df EXCEPT ![i].injury_status = injury_status,
                                 ![i].roster_status = status]
            original_points == row.projected_points
            adjusted_points == apply_injury_gate(original_points, status, injury_status)
        IN  IF adjusted_points.raised # "no"
            THEN [df |-> stored, raised |-> adjusted_points.raised,
                  zeroed_count |-> zeroed_count]
            ELSE LET adjusted == [stored EXCEPT ![i].points_adj = adjusted_points.v]
                 IN  IF adjusted_points.v = 0
                     THEN injury_loop_counts_zero_rows(
                              [adjusted EXCEPT ![i] = zero_row(adjusted[i])],
                              i + 1, injury_data, zeroed_count + 1)
                     ELSE injury_loop_counts_zero_rows(adjusted, i + 1, injury_data,
                                                       zeroed_count)

\* a loop that does not look at the last row of the table
RECURSIVE injury_loop_stops_before_last_row(_, _, _, _)
injury_loop_stops_before_last_row(df, i, injury_data, zeroed_count) ==
    IF i >= Len(df) THEN [df |-> df, raised |-> "no", zeroed_count |-> zeroed_count]
    ELSE
    LET row == df[i]
        gsis_id == row.player_id
        sleeper_id == gsis_to_sleeper_id(gsis_id)
    IN  IF gsis_id = "" THEN injury_loop_stops_before_last_row(df, i + 1, injury_data, zeroed_count)
        ELSE IF ~Truthy(sleeper_id) THEN injury_loop_stops_before_last_row(df, i + 1, injury_data, zeroed_count)
        ELSE
        LET player_injury_data ==
                IF sleeper_id.v \in DOMAIN injury_data.v THEN injury_data.v[sleeper_id.v]
                ELSE EmptyDict
            status == PyOr(dict_get(player_injury_data, "status", EmptyStr), EmptyStr)
            injury_status ==
                PyOr(dict_get(player_injury_data, "injury_status", EmptyStr), EmptyStr)
            stored == [df EXCEPT ![i].injury_status = injury_status,
                                 ![i].roster_status = status]
            original_points == row.projected_points
            adjusted_points == apply_injury_gate(original_points, status, injury_status)
        IN  IF adjusted_points.raised # "no"
            THEN [df |-> stored, raised |-> adjusted_points.raised,
                  zeroed_count |-> zeroed_count]
            ELSE LET adjusted == [stored EXCEPT ![i].points_adj = adjusted_points.v]
                 IN  IF adjusted_points.v = 0 /\ original_points > 0
                     THEN injury_loop_stops_before_last_row([adjusted EXCEPT ![i] = zero_row(adjusted[i])],
                                      i + 1, injury_data, zeroed_count + 1)
                     ELSE injury_loop_stops_before_last_row(adjusted, i + 1, injury_data, zeroed_count)

\* lines 453-483: the loop over the rows, from row i on
RECURSIVE injury_loop(_, _, _, _)
injury_loop(df, i, injury_data, zeroed_count) ==
    IF i > Len(df) THEN [df |-> df, raised |-> "no", zeroed_count |-> zeroed_count]
    ELSE
    LET row == df[i]
        gsis_id == row.player_id
        sleeper_id == gsis_to_sleeper_id(gsis_id)
    IN  IF gsis_id = "" THEN injury_loop(df, i + 1, injury_data, zeroed_count)
        ELSE IF ~Truthy(sleeper_id) THEN injury_loop(df, i + 1, injury_data, zeroed_count)
        ELSE
        LET player_injury_data ==
                IF sleeper_id.v \in DOMAIN injury_data.v THEN injury_data.v[sleeper_id.v]
                ELSE EmptyDict
            status == PyOr(dict_get(player_injury_data, "status", EmptyStr), EmptyStr)
            injury_status ==
                PyOr(dict_get(player_injury_data, "injury_status", EmptyStr), EmptyStr)
            stored == [df EXCEPT ![i].injury_status = injury_status,
                                 ![i].roster_status = status]
            original_points == row.projected_points
            adjusted_points == apply_injury_gate(original_points, status, injury_status)
        IN  IF adjusted_points.raised # "no"
            THEN [df |-> stored, raised |-> adjusted_points.raised,
                  zeroed_count |-> zeroed_count]
            ELSE LET adjusted == [stored EXCEPT ![i].points_adj = adjusted_points.v]
                 IN  IF adjusted_points.v = 0 /\ original_points > 0
                     THEN injury_loop([adjusted EXCEPT ![i] = zero_row(adjusted[i])],
                                      i + 1, injury_data, zeroed_count + 1)
                     ELSE injury_loop(adjusted, i + 1, injury_data, zeroed_count)

\* an injury filter without the early return on an empty availability set
apply_injury_filter_no_skip(projections_df, fetched) ==
    IF fetched.raised # "no"
    THEN [df |-> projections_df, caught |-> fetched.raised, zeroed_count |-> 0]
    ELSE LET looped == injury_loop(add_injury_columns(projections_df), 1, fetched.ret, 0)
         IN  [df |-> looped.df, caught |-> looped.raised,
              zeroed_count |-> looped.zeroed_count]

\* an injury filter that moves the rows it leaves at zero to the end of the table
apply_injury_filter_zeroed_last(projections_df, fetched) ==
    IF fetched.raised # "no"
    THEN [df |-> projections_df, caught |-> fetched.raised, zeroed_count |-> 0]
    ELSE IF ~Truthy(fetched.ret)
    THEN [df |-> projections_df, caught |-> "no", zeroed_count |-> 0]
    ELSE LET looped == injury_loop(add_injury_columns(projections_df), 1, fetched.ret, 0)
             summary == get_injury_summary(fetched.ret)
             ranked == SelectSeq(looped.df, LAMBDA row : row.projected_points # 0)
                         \o SelectSeq(looped.df, LAMBDA row : row.projected_points = 0)
         IN  IF looped.raised # "no"
             THEN [df |-> ranked, caught |-> looped.raised,
                   zeroed_count |-> looped.zeroed_count]
             ELSE [df |-> ranked, caught |-> summary.raised,
                   zeroed_count |-> looped.zeroed_count]

\* lines 421-497: _apply_injury_filter; fetched is what
\* get_injury_data_with_cache() did
apply_injury_filter(projections_df, fetched) ==
    IF fetched.raised # "no"
    THEN [df |-> projections_df, caught |-> fetched.raised, zeroed_count |-> 0]
    ELSE IF ~Truthy(fetched.ret)
    THEN [df |-> projections_df, caught |-> "no", zeroed_count |-> 0]
    ELSE LET looped == injury_loop(add_injury_columns(projections_df), 1, fetched.ret, 0)
             summary == get_injury_summary(fetched.ret)
         IN  IF looped.raised # "no"
             THEN [df |-> looped.df, caught |-> looped.raised,
                   zeroed_count |-> looped.zeroed_count]
             ELSE [df |-> looped.df, caught |-> summary.raised,
                   zeroed_count |-> looped.zeroed_count]

\* a benching loop that looks at the rows of every position
RECURSIVE benching_loop_any_position(_, _, _, _)
benching_loop_any_position(df, i, injury_data, zeroed_count) ==
    IF i > Len(df) THEN [df |-> df, raised |-> "no", zeroed_count |-> zeroed_count]
    ELSE
    LET row == df[i]
        gsis_id == row.player_id
        sleeper_id == gsis_to_sleeper_id(gsis_id)
    IN  IF gsis_id = "" THEN benching_loop_any_position(df, i + 1, injury_data, zeroed_count)
        ELSE IF ~Truthy(sleeper_id)
        THEN benching_loop_any_position(df, i + 1, injury_data, zeroed_count)
        ELSE
        LET player_data ==
                IF sleeper_id.v \in DOMAIN injury_data.v THEN injury_data.v[sleeper_id.v]
                ELSE EmptyDict
            depth_chart_order == dict_get(player_data, "depth_chart_order", PyNone)
        IN  IF depth_chart_order = PyNone
            THEN benching_loop_any_position(df, i + 1, injury_data, zeroed_count)
            ELSE IF depth_chart_order.t # "int"
            THEN [df |-> df, raised |-> "TypeError", zeroed_count |-> zeroed_count]
            ELSE IF depth_chart_order.v > 1 /\ row.projected_points > 0
            THEN benching_loop_any_position([df EXCEPT ![i] = zero_row(df[i])], i + 1,
                                            injury_data, zeroed_count + 1)
            ELSE benching_loop_any_position(df, i + 1, injury_data, zeroed_count)

\* lines 81-109 of the edit: the loop of the benching filter, from row i on;
\* depth_chart_order > 1 raises TypeError when the order is no number
RECURSIVE benching_loop(_, _, _, _)
benching_loop(df, i, injury_data, zeroed_count) ==
    IF i > Len(df) THEN [df |-> df, raised |-> "no", zeroed_count |-> zeroed_count]
    ELSE
    LET row == df[i]
        gsis_id == row.player_id
        sleeper_id == gsis_to_sleeper_id(gsis_id)
    IN  IF row.position # "QB" THEN benching_loop(df, i + 1, injury_data, zeroed_count)
        ELSE IF gsis_id = "" THEN benching_loop(df, i + 1, injury_data, zeroed_count)
        ELSE IF ~Truthy(sleeper_id) THEN benching_loop(df, i + 1, injury_data, zeroed_count)
        ELSE
        LET player_data ==
                IF sleeper_id.v \in DOMAIN injury_data.v THEN injury_data.v[sleeper_id.v]
                ELSE EmptyDict
            depth_chart_order == dict_get(player_data, "depth_chart_order", PyNone)
        IN  IF depth_chart_order = PyNone
            THEN benching_loop(df, i + 1, injury_data, zeroed_count)
            ELSE IF depth_chart_order.t # "int"
            THEN [df |-> df, raised |-> "TypeError", zeroed_count |-> zeroed_count]
            ELSE IF depth_chart_order.v > 1 /\ row.projected_points > 0
            THEN benching_loop([df EXCEPT ![i] = zero_row(df[i])], i + 1, injury_data,
                               zeroed_count + 1)
            ELSE benching_loop(df, i + 1, injury_data, zeroed_count)

\* lines 55-119 of the edit: _apply_qb_benching_filter
apply_qb_benching_filter(projections_df, fetched) ==
    IF fetched.raised # "no"
    THEN [df |-> projections_df, caught |-> fetched.raised, zeroed_count |-> 0]
    ELSE IF ~Truthy(fetched.ret)
    THEN [df |-> projections_df, caught |-> "no", zeroed_count |-> 0]
    ELSE LET looped == benching_loop(projections_df, 1, fetched.ret, 0)
         IN  [df |-> looped.df, caught |-> looped.raised,
              zeroed_count |-> looped.zeroed_count]

\* a pipeline that runs the benching filter whatever its flag says
stage_after_always_bench(stage, flags) ==
    CASE stage = "bye" -> IF flags.injury_filter THEN "injury" ELSE "bench"
      [] stage = "injury" -> "bench"
      [] OTHER -> "done"

\* lines 28-52 of the edit (lines 359-379 of the engine, which has the first
\* two stages): the stage _apply_availability_filters runs after `stage`
stage_after(stage, flags) ==
    CASE stage = "bye" ->
            IF flags.injury_filter THEN "injury"
            ELSE IF flags.qb_benching_filter THEN "bench" ELSE "done"
      [] stage = "injury" -> IF flags.qb_benching_filter THEN "bench" ELSE "done"
      [] OTHER -> "done"

(***************************************************************************)
(* The position projector (base_projector.py).  A float is a number of     *)
(* thousandths of a point, or NaN; a division keeps the thousandths and    *)
(* drops the rest.  NaN is what pandas returns for the mean of no value    *)
(* and for the standard deviation of fewer than two values.                *)
(***************************************************************************)
Float(v) == [nan |-> FALSE, v |-> v]
NaN == [nan |-> TRUE, v |-> 0]
\* the float of a whole number
Whole(n) == Float(1000 * n)

\* comparisons of floats: every comparison with NaN is false
f_lt(a, b) == ~a.nan /\ ~b.nan /\ a.v < b.v
f_gt(a, b) == f_lt(b, a)
f_le(a, b) == ~a.nan /\ ~b.nan /\ a.v <= b.v
f_add(a, b) == IF a.nan \/ b.nan THEN NaN ELSE Float(a.v + b.v)
f_sub(a, b) == IF a.nan \/ b.nan THEN NaN ELSE Float(a.v - b.v)
\* a * (num / den)
f_times(a, num, den) == IF a.nan THEN NaN ELSE Float((a.v * num) \div den)

\* the builtins max(a, b) and min(a, b): the first argument unless the second
\* compares greater (smaller)
py_max(a, b) == IF f_gt(b, a) THEN b ELSE a
py_min(a, b) == IF f_lt(b, a) THEN b ELSE a

\* round(x, ndigits) for ndigits 1 and 2: to the nearest multiple of the step,
\* a tie to the even multiple; round(nan) is nan
py_round(x, ndigits) ==
    IF x.nan THEN NaN
    ELSE LET step == IF ndigits = 2 THEN 10 ELSE 100
             q == x.v \div step
             r == x.v % step
         IN  IF 2 * r < step THEN Float(q * step)
             ELSE IF 2 * r > step THEN Float((q + 1) * step)
             ELSE IF q % 2 = 0 THEN Float(q * step) ELSE Float((q + 1) * step)

RECURSIVE isqrt_between(_, _, _)
\* the largest r in lo..hi with r * r <= n
isqrt_between(lo, hi, n) ==
    IF lo >= hi THEN lo
    ELSE LET mid == (lo + hi + 1) \div 2
         IN  IF mid * mid <= n THEN isqrt_between(mid, hi, n)
             ELSE isqrt_between(lo, mid - 1, n)

\* numpy.sqrt on a number >= 0, in whole units
isqrt(n) == isqrt_between(0, 46340, n)

RECURSIVE SumSeq(_)
SumSeq(xs) == IF xs = << >> THEN 0 ELSE Head(xs) + SumSeq(Tail(xs))

\* df['fantasy_points'] as thousandths
fantasy_points(df) == [i \in DOMAIN df |-> 1000 * df[i].fantasy_points]

\* Series.mean()
mean(xs) == IF xs = << >> THEN NaN ELSE Float(SumSeq(xs) \div Len(xs))

\* Series.std(): the sample standard deviation
std(xs) ==
    IF Len(xs) <= 1 THEN NaN
    ELSE LET m == SumSeq(xs) \div Len(xs)
             squares == [i \in DOMAIN xs |-> (xs[i] - m) * (xs[i] - m)]
         IN  Float(isqrt(SumSeq(squares) \div (Len(xs) - 1)))

\* df.head(n)
head(df, n) == SubSeq(df, 1, IF Len(df) < n THEN Len(df) ELSE n)

\* StatisticalProjector.position_weights, in hundredths
position_weights ==
    [QB |-> [recent |-> 40, season |-> 30, career |-> 30],
     RB |-> [recent |-> 50, season |-> 30, career |-> 20],
     WR |-> [recent |-> 40, season |-> 35, career |-> 25],
     TE |-> [recent |-> 40, season |-> 35, career |-> 25]]

\* BaseProjector._validate_prediction
validate_prediction(prediction) ==
    LET projected == py_max(Whole(0), prediction.projected_points)
    IN  [prediction EXCEPT
            !.projected_points = projected,
            !.confidence_lower = py_min(prediction.confidence_lower, projected),
            !.confidence_upper = py_max(prediction.confidence_upper, projected)]

\* StatisticalProjector.fit: the value of model_params
fit(self_position, training_data) ==
    LET position_data == SelectSeq(training_data, LAMBDA g : g.position = self_position)
        groups == { <<position_data[i].player_id, position_data[i].season>> :
                      i \in DOMAIN position_data }
    IN  [position_mean |-> mean(fantasy_points(position_data)),
         position_std |-> std(fantasy_points(position_data)),
         games_per_season |->
            IF groups = {} THEN NaN
            ELSE Float((1000 * Len(position_data)) \div Cardinality(groups))]

\* the weighted projection of predict_weekly, before the position average
\* replaces a zero
weighted_projection(self_position, player_data, season) ==
    LET weights == position_weights[self_position]
        recent_games == head(player_data, 3)
        recent_avg == IF Len(recent_games) > 0
                      THEN mean(fantasy_points(recent_games)) ELSE Whole(0)
        season_data == SelectSeq(player_data, LAMBDA g : g.season = season)
        season_avg == IF Len(season_data) > 0
                      THEN mean(fantasy_points(season_data)) ELSE Whole(0)
        career_avg == IF Len(player_data) > 0
                      THEN mean(fantasy_points(player_data)) ELSE Whole(0)
    IN  f_add(f_add(f_times(recent_avg, weights.recent, 100),
                    f_times(season_avg, weights.season, 100)),
              f_times(career_avg, weights.career, 100))

\* a predict_weekly that keeps a weighted projection of zero
predict_weekly_no_baseline(self_position, params, player_data, season) ==
    LET projection == weighted_projection(self_position, player_data, season)
        player_std == IF Len(player_data) > 1
                      THEN std(fantasy_points(player_data)) ELSE params.position_std
        spread == f_times(player_std, 196, 100)
    IN  validate_prediction(
            [projected_points |-> py_round(projection, 2),
             confidence_lower |-> py_round(py_max(Whole(0), f_sub(projection, spread)), 2),
             confidence_upper |-> py_round(f_add(projection, spread), 2),
             confidence_level |-> 95])

\* a check of the trained flag that returns None where the code raises
raise_unless_trained_returns_none(trained, kind, prediction) ==
    IF ~trained THEN [kind |-> kind, raised |-> "no", v |-> PyNone]
    ELSE [kind |-> kind, raised |-> "no", v |-> prediction]

\* lines 185-186 and 230-231: `if not self.is_trained: raise ValueError(...)`,
\* then the body of the method
raise_unless_trained(trained, kind, prediction) ==
    IF ~trained THEN [kind |-> kind, raised |-> "ValueError"]
    ELSE [kind |-> kind, raised |-> "no", v |-> prediction]

\* StatisticalProjector.predict_weekly of a trained projector
predict_weekly(self_position, params, player_data, season) ==
    LET weighted == weighted_projection(self_position, player_data, season)
        projection == IF weighted = Whole(0) THEN params.position_mean ELSE weighted
        player_std == IF Len(player_data) > 1
                      THEN std(fantasy_points(player_data)) ELSE params.position_std
        spread == f_times(player_std, 196, 100)
    IN  validate_prediction(
            [projected_points |-> py_round(projection, 2),
             confidence_lower |-> py_round(py_max(Whole(0), f_sub(projection, spread)), 2),
             confidence_upper |-> py_round(f_add(projection, spread), 2),
             confidence_level |-> 95])

\* StatisticalProjector.predict_seasonal of a trained projector, called
\* without expected_games and injury_risk
predict_seasonal(self_position, params, player_data, season) ==
    LET expected_games == 17
        weekly_projection == predict_weekly(self_position, params, player_data, season)
        weekly_points == weekly_projection.projected_points
        seasonal_projection == f_times(f_times(weekly_points, expected_games, 1), 9, 10)
        weekly_std == f_times(f_sub(weekly_projection.confidence_upper,
                                    weekly_projection.confidence_lower), 100, 392)
        \* numpy.sqrt(17) = 4.123...
        seasonal_std == f_times(weekly_std, 4123, 1000)
        spread == f_times(seasonal_std, 196, 100)
    IN  validate_prediction(
            [projected_points |-> py_round(seasonal_projection, 1),
             confidence_lower |->
                py_round(py_max(Whole(0), f_sub(seasonal_projection, spread)), 1),
             confidence_upper |-> py_round(f_add(seasonal_projection, spread), 1),
             confidence_level |-> 95,
             expected_games |-> f_times(Whole(expected_games), 9, 10)])

(***************************************************************************)
(* config/scoring.py: the scoring presets and the points of a stat line.   *)
(* A weight is a number of tenths of a point per unit.                     *)
(***************************************************************************)
\* lines 8-12: the values of the enum ScoringType
ScoringTypes == {"standard", "ppr", "half_ppr"}

\* an enum that takes an unknown name for the standard preset
scoring_type_lenient(name) ==
    IF name \in ScoringTypes THEN [raised |-> "no", v |-> name]
    ELSE [raised |-> "no", v |-> "standard"]

\* ScoringType(name): the member with that value, ValueError when there is none
scoring_type(name) ==
    IF name \in ScoringTypes THEN [raised |-> "no", v |-> name]
    ELSE [raised |-> "ValueError"]

\* lines 15-36: the fields of ScoringSystem and their defaults
ScoringSystem(reception) ==
    [passing_yards_per_point |-> 25, passing_td |-> 40, passing_interception |-> 0 - 20,
     passing_2pt |-> 20,
     rushing_yards_per_point |-> 10, rushing_td |-> 60, rushing_2pt |-> 20,
     receiving_yards_per_point |-> 10, receiving_td |-> 60, receiving_2pt |-> 20,
     reception |-> reception,
     fumble_lost |-> 0 - 20]

\* presets in which half_ppr pays a full point per reception
get_scoring_system_full_half(scoring_type_) ==
    CASE scoring_type_ = "standard" -> ScoringSystem(0)
      [] scoring_type_ = "ppr" -> ScoringSystem(10)
      [] OTHER -> ScoringSystem(10)

\* lines 38-48: get_scoring_system, called with a member of the enum
get_scoring_system(scoring_type_) ==
    CASE scoring_type_ = "standard" -> ScoringSystem(0)
      [] scoring_type_ = "ppr" -> ScoringSystem(10)
      [] scoring_type_ = "half_ppr" -> ScoringSystem(5)

\* stats.get(key, 0)
stats_get(stats, key) == IF key \in DOMAIN stats THEN stats[key] ELSE Whole(0)

\* lines 52-72: points, before it is rounded
weighted_points(self, stats) ==
    LET per(key, yards) == f_times(stats_get(stats, key), 1, yards)
        times(key, weight) == f_times(stats_get(stats, key), weight, 10)
        passing == f_add(f_add(per("passing_yards", self.passing_yards_per_point),
                               times("passing_tds", self.passing_td)),
                         f_add(times("interceptions", self.passing_interception),
                               times("passing_2pt", self.passing_2pt)))
        rushing == f_add(f_add(per("rushing_yards", self.rushing_yards_per_point),
                               times("rushing_tds", self.rushing_td)),
                         times("rushing_2pt", self.rushing_2pt))
        receiving == f_add(f_add(per("receiving_yards", self.receiving_yards_per_point),
                                 times("receiving_tds", self.receiving_td)),
                           f_add(times("receiving_2pt", self.receiving_2pt),
                                 times("receptions", self.reception)))
        fumbles == times("fumbles_lost", self.fumble_lost)
    IN  f_add(f_add(passing, rushing), f_add(receiving, fumbles))

\* lines 50-74: calculate_fantasy_points
calculate_fantasy_points(self, stats) == py_round(weighted_points(self, stats), 2)

\* lines 29-35 of projection_engine.py: the scoring system of a new engine
\* made with a preset name
engine_scoring_system(name) ==
    LET member == scoring_type(name)
    IN  IF member.raised # "no" THEN [state |-> "raised", raised |-> member.raised]
        ELSE [state |-> "made", preset |-> member.v,
              system |-> get_scoring_system(member.v)]

(***************************************************************************)
(* The projection engine (projection_engine.py) and the data it loads.     *)
(* A stats row carries the fantasy points the scoring system gives it.     *)
(***************************************************************************)
\* NFLDataLoader.current_season
current_season == 2024

\* the window fit() trains on when it is given no seasons
default_seasons == [i \in 1..3 |-> current_season - (i - 1)]

\* the positions the engine has a projector for
ProjectorPositions == {"QB", "RB", "WR", "TE"}

StatRow(pos, player_id, season, week, points) ==
    [position |-> pos, player_id |-> player_id, season |-> season, week |-> week,
     fantasy_points |-> points]

\* the weekly player stats of the league, as nflverse holds them
LeagueStats ==
    << StatRow("RB", "g2", 2024, 1, 10), StatRow("QB", "g1", 2024, 2, 20),
       StatRow("QB", "g1", 2024, 1, 10), StatRow("RB", "g2", 2024, 2, 0),
       StatRow("WR", "g5", 2023, 1, 10), StatRow("QB", "g1", 2023, 1, 0),
       StatRow("RB", "g2", 2023, 1, 5), StatRow("RB", "g2", 2023, 2, 10),
       StatRow("QB", "g1", 2023, 2, 10), StatRow("WR", "g5", 2023, 2, 20),
       StatRow("TE", "g6", 2022, 1, 5), StatRow("TE", "g6", 2022, 2, 15) >>

\* the rosters of the league: g3 has played no game, g4 is a kicker, g5 was a
\* receiver in 2023 and is listed as a tight end in 2024
LeagueRosters ==
    << [gsis_id |-> "g1", position |-> "QB", team |-> "KC", season |-> 2024],
       [gsis_id |-> "g2", position |-> "RB", team |-> "SF", season |-> 2024],
       [gsis_id |-> "g3", position |-> "QB", team |-> "KC", season |-> 2024],
       [gsis_id |-> "g4", position |-> "K", team |-> "SF", season |-> 2024],
       [gsis_id |-> "g5", position |-> "TE", team |-> "KC", season |-> 2024],
       [gsis_id |-> "g6", position |-> "TE", team |-> "SF", season |-> 2024] >>

\* the order of the player ids as strings
PlayerOrder == << "g1", "g2", "g3", "g4", "g5", "g6", "g9" >>
player_rank(id) == CHOOSE i \in DOMAIN PlayerOrder : PlayerOrder[i] = id

SeqToSet(xs) == { xs[i] : i \in DOMAIN xs }

\* a DataFrame with the given rows; a list of seasons
Frame(rows) == [t |-> "frame", v |-> rows]
SeasonList(seasons) == [t |-> "list", v |-> seasons]

\* NFLDataLoader.load_player_stats(seasons) and load_rosters(seasons), when
\* the load succeeds
load_player_stats(seasons) ==
    SelectSeq(LeagueStats, LAMBDA r : r.season \in SeqToSet(seasons))
load_rosters(seasons) ==
    SelectSeq(LeagueRosters, LAMBDA r : r.season \in SeqToSet(seasons))

\* _prepare_training_data: the rows with their fantasy points, sorted by
\* player_id, season, week
prepare_training_data(raw_data) ==
    SortSeq(raw_data,
            LAMBDA a, b :
               \/ player_rank(a.player_id) < player_rank(b.player_id)
               \/ /\ a.player_id = b.player_id
                  /\ \/ a.season < b.season
                     \/ a.season = b.season /\ a.week < b.week)

\* the projectors of a new engine
NewProjectors ==
    [pos \in ProjectorPositions |->
        [is_trained |-> FALSE, model_params |-> [kind |-> "none"]]]

\* lines 40-45: the order in which the dict holds the projectors
ProjectorOrder == << "QB", "RB", "WR", "TE" >>

\* lines 72-79 of fit: the loop over self.projectors.items(), from the k-th
\* projector on; each projector whose position has rows is fitted on them, and
\* an exception raised in projector.fit of the position `outage` leaves the loop
RECURSIVE fit_loop(_, _, _, _)
fit_loop(projs, training_data, k, outage) ==
    IF k > Len(ProjectorOrder) THEN [projectors |-> projs, raised |-> "no"]
    ELSE LET pos == ProjectorOrder[k]
             position_data == SelectSeq(training_data, LAMBDA r : r.position = pos)
         IN  IF Len(position_data) > 0
             THEN IF outage = pos THEN [projectors |-> projs, raised |-> "FitError"]
                  ELSE fit_loop([projs EXCEPT ![pos] =
                                    [is_trained |-> TRUE,
                                     model_params |-> fit(pos, position_data)]],
                                training_data, k + 1, outage)
             ELSE fit_loop(projs, training_data, k + 1, outage)

\* lines 72-79 of fit when no projector raises
train_projectors(projs, training_data) ==
    fit_loop(projs, training_data, 1, "none").projectors

\* the rows of one player, most recent game first (lines 351-355)
player_history(training_data, player_id) ==
    SortSeq(SelectSeq(training_data, LAMBDA r : r.player_id = player_id),
            LAMBDA a, b :
               \/ a.season > b.season
               \/ a.season = b.season /\ a.week > b.week)

\* The engine as a record of its three fields, and the outcome of a call:
\* the engine after it, the exception raised ("no" for none), the seasons of
\* the fit it ran (<< >> for none) and the value returned.
Engine(fitted, training_data, projs) ==
    [is_fitted |-> fitted, training_data |-> training_data, projectors |-> projs]
Outcome(e, raised, fit_ran, ret) ==
    [e |-> e, raised |-> raised, fit_ran |-> fit_ran, ret |-> ret]

\* What the data source does during a call: it answers every load, or the
\* load of the stats, or the load of the rosters, raises.
Outages == {"none", "stats", "rosters"}
\* What can fail during a fit: the load of the stats, or the fit of the
\* projector of one position, here the second of the loop
FitOutages == {"none", "stats", "RB"}

\* a fit that stores the training data before it fits the projectors
engine_fit_caches_before_loop(e, seasons, outage) ==
    LET used == IF seasons = PyNone THEN default_seasons ELSE seasons.v
    IN  IF outage = "stats" THEN Outcome(e, "LoadError", << >>, PyNone)
        ELSE LET training_data == prepare_training_data(load_player_stats(used))
                 looped == fit_loop(e.projectors, training_data, 1, outage)
             IN  IF looped.raised # "no"
                 THEN Outcome(Engine(e.is_fitted, Frame(training_data), looped.projectors),
                              looped.raised, << >>, PyNone)
                 ELSE Outcome(Engine(TRUE, Frame(training_data), looped.projectors),
                              "no", used, PyNone)

\* lines 56-83: ProjectionEngine.fit(seasons)
engine_fit(e, seasons, outage) ==
    LET used == IF seasons = PyNone THEN default_seasons ELSE seasons.v
    IN  IF outage = "stats" THEN Outcome(e, "LoadError", << >>, PyNone)
        ELSE LET training_data == prepare_training_data(load_player_stats(used))
                 looped == fit_loop(e.projectors, training_data, 1, outage)
             IN  IF looped.raised # "no"
                 THEN Outcome(Engine(e.is_fitted, e.training_data, looped.projectors),
                              looped.raised, << >>, PyNone)
                 ELSE Outcome(Engine(TRUE, Frame(training_data), looped.projectors),
                              "no", used, PyNone)

\* a number of a projection as the table holds it, in thousandths; it is
\* defined for numbers only (the stats of the league give no batch row a NaN)
number(f) == CASE ~f.nan -> f.v

\* a loop that ends at the first player it cannot project (break for continue)
batch_rows_break(e, horizon, week, season, rosters) ==
    LET history(player) == player_history(e.training_data.v, player.gsis_id)
        gives_row(player) ==
            /\ player.position \in ProjectorPositions
            /\ history(player) # << >>
            /\ e.projectors[player.position].is_trained
        stops == { i \in DOMAIN rosters : ~gives_row(rosters[i]) }
        players == SelectSeq(rosters, LAMBDA q : /\ gives_row(q)
                                                 /\ \A i \in stops : \E j \in 1..(i - 1) : rosters[j] = q)
        projection(player) ==
            LET pr == e.projectors[player.position]
            IN  IF horizon = "weekly"
                THEN predict_weekly(player.position, pr.model_params, history(player), season)
                ELSE predict_seasonal(player.position, pr.model_params, history(player), season)
    IN  [i \in DOMAIN players |->
            LET p == projection(players[i])
            IN  [player_id |-> players[i].gsis_id,
                 position |-> players[i].position,
                 team |-> players[i].team,
                 season |-> season,
                 week |-> IF horizon = "weekly" THEN week ELSE 0,
                 projected_points |-> number(p.projected_points),
                 confidence_lower |-> number(p.confidence_lower),
                 confidence_upper |-> number(p.confidence_upper)]]

\* lines 116-159 and 199-240: the loop of a batch request over the roster; a
\* player without projector, without history or whose predict call raises
\* gives no row
batch_rows(e, horizon, week, season, rosters) ==
    LET history(player) == player_history(e.training_data.v, player.gsis_id)
        gives_row(player) ==
            /\ player.position \in ProjectorPositions
            /\ history(player) # << >>
            /\ e.projectors[player.position].is_trained
        players == SelectSeq(rosters, gives_row)
        projection(player) ==
            LET pr == e.projectors[player.position]
            IN  IF horizon = "weekly"
                THEN predict_weekly(player.position, pr.model_params, history(player), season)
                ELSE predict_seasonal(player.position, pr.model_params, history(player), season)
    IN  [i \in DOMAIN players |->
            LET p == projection(players[i])
            IN  [player_id |-> players[i].gsis_id,
                 position |-> players[i].position,
                 team |-> players[i].team,
                 season |-> season,
                 week |-> IF horizon = "weekly" THEN week ELSE 0,
                 projected_points |-> number(p.projected_points),
                 confidence_lower |-> number(p.confidence_lower),
                 confidence_upper |-> number(p.confidence_upper)]]

\* DataFrame.sort_values('projected_points', ascending=False)
sort_by_points(rows) ==
    SortSeq(rows, LAMBDA a, b : a.projected_points > b.projected_points)

\* a batch request that never fits; the history of a player is then read from
\* the default training data, loaded when the engine has none
batch_request_no_fit(e, horizon, week, season, outage) ==
    LET loaded == IF e.training_data # PyNone THEN e
                  ELSE Engine(e.is_fitted,
                              Frame(prepare_training_data(load_player_stats(default_seasons))),
                              e.projectors)
    IN  IF outage = "rosters" THEN Outcome(e, "LoadError", << >>, PyNone)
        ELSE IF outage = "stats" /\ e.training_data = PyNone
        THEN Outcome(e, "LoadError", << >>, PyNone)
        ELSE Outcome(loaded, "no", << >>,
                     sort_by_points(batch_rows(loaded, horizon, week, season,
                                               load_rosters(<< season >>))))

\* a request that sends the seasonal table through the filters too
first_stage_filters_seasonal(horizon, rows) ==
    IF rows = << >> THEN "done" ELSE "bye"

\* lines 156-165 and 241-249: what follows the projection loop; an empty
\* table is returned at once, the weekly table goes to
\* _apply_availability_filters, the seasonal table is returned as sorted
first_stage(horizon, rows) ==
    IF rows = << >> THEN "done"
    ELSE IF horizon = "weekly" THEN "bye"
    ELSE "done"

\* get_weekly_projections / get_seasonal_projections up to the sorted table
\* (lines 101-162, 184-242): fit when not fitted, load the roster, project
batch_request(e, horizon, week, season, outage) ==
    LET fitted == IF e.is_fitted THEN Outcome(e, "no", << >>, PyNone)
                  ELSE engine_fit(e, PyNone, outage)
    IN  IF fitted.raised # "no" THEN fitted
        ELSE IF outage = "rosters" THEN Outcome(fitted.e, "LoadError", fitted.fit_ran, PyNone)
        ELSE Outcome(fitted.e, "no", fitted.fit_ran,
                     sort_by_points(batch_rows(fitted.e, horizon, week, season,
                                               load_rosters(<< season >>))))

\* lines 344-357: _get_player_historical_data, which loads and keeps the
\* default training data when the engine has none
get_player_historical_data(e, player_id, outage) ==
    IF e.training_data = PyNone
    THEN IF outage = "stats" THEN Outcome(e, "LoadError", << >>, PyNone)
         ELSE LET training_data == prepare_training_data(load_player_stats(default_seasons))
              IN  Outcome(Engine(e.is_fitted, Frame(training_data), e.projectors), "no",
                          << >>, player_history(training_data, player_id))
    ELSE Outcome(e, "no", << >>, player_history(e.training_data.v, player_id))

\* lines 286-314 of get_player_projection: the history, the predict call of
\* the projector of the player's position, the metadata
project_player(e, info, projection_type, season, outage) ==
    LET h == get_player_historical_data(e, info.gsis_id, outage)
        pr == e.projectors[info.position]
    IN  IF h.raised # "no" THEN h
        ELSE IF ~pr.is_trained
        THEN Outcome(h.e, "ValueError: not fitted", << >>, PyNone)
        ELSE Outcome(h.e, "no", << >>,
               [player_id |-> info.gsis_id,
                position |-> info.position,
                team |-> info.team,
                season |-> season,
                projection |->
                   IF projection_type = "weekly"
                   THEN predict_weekly(info.position, pr.model_params, h.ret, season)
                   ELSE predict_seasonal(info.position, pr.model_params, h.ret, season)])

\* a player-detail request that answers nothing for a player it does not find
get_player_projection_silent(e, player_id, projection_type, week, season, outage) ==
    IF projection_type = "weekly" /\ week = PyNone
    THEN Outcome(e, "ValueError: week is required", << >>, PyNone)
    ELSE IF outage = "rosters" THEN Outcome(e, "LoadError", << >>, PyNone)
    ELSE LET info == SelectSeq(load_rosters(<< season >>), LAMBDA r : r.gsis_id = player_id)
         IN  IF info = << >> THEN Outcome(e, "no", << >>, PyNone)
             ELSE IF info[1].position \notin ProjectorPositions
             THEN Outcome(e, "ValueError: position", << >>, PyNone)
             ELSE project_player(e, info[1], projection_type, season, outage)

\* lines 251-314: get_player_projection(player_id, projection_type, week, season)
get_player_projection(e, player_id, projection_type, week, season, outage) ==
    IF projection_type = "weekly" /\ week = PyNone
    THEN Outcome(e, "ValueError: week is required", << >>, PyNone)
    ELSE IF outage = "rosters" THEN Outcome(e, "LoadError", << >>, PyNone)
    ELSE LET info == SelectSeq(load_rosters(<< season >>), LAMBDA r : r.gsis_id = player_id)
         IN  IF info = << >> THEN Outcome(e, "ValueError: not found", << >>, PyNone)
             ELSE IF info[1].position \notin ProjectorPositions
             THEN Outcome(e, "ValueError: position", << >>, PyNone)
             ELSE project_player(e, info[1], projection_type, season, outage)

(***************************************************************************)
(* Idle values of the variable groups.                                     *)
(***************************************************************************)
IdleGate ==
    /\ g_status = PyNone /\ g_injury = PyNone /\ g_out = "idle"
    /\ g_points = 0
    /\ g_adj = [n |-> 0]
    /\ g_summary = [kind |-> "none"]
IdleFetch ==
    /\ now = 0
    /\ snapshot = [state |-> "absent"]
    /\ ir_cache = [state |-> "absent"]
    /\ cycle = [kind |-> "none"]
    /\ live = [kind |-> "none"]
IdlePipe ==
    /\ pc = "off"
    /\ table = << >>
    /\ cfg = [kind |-> "none"]
    /\ last = [stage |-> "none"]
    /\ order = << >>
IdleScore ==
    /\ sc_name = "standard"
    /\ sc_system = [state |-> "none"]
    /\ sc_stats = << >>
    /\ sc_points = [kind |-> "none"]
IdleMap ==
    /\ mapping_file = [state |-> "absent"]
    /\ mapper = [kind |-> "none"]
    /\ lookup = [kind |-> "none"]
IdleEng ==
    /\ is_fitted = FALSE
    /\ cached_training_data = PyNone
    /\ projectors = [kind |-> "none"]
    /\ request = [op |-> "none"]
IdleProj ==
    /\ position = "QB"
    /\ model_params = [kind |-> "none"]
    /\ is_trained = FALSE
    /\ p_in = [kind |-> "none"]
    /\ p_out = [kind |-> "none"]

(***************************************************************************)
(* SpecGate: one call of decision_from_fields on every pair of inputs.     *)
(***************************************************************************)
\* the status strings the gate is called with: str or None, as its signature says
GateInputs ==
    { PyNone, EmptyStr } \cup
    { PyStr(s) : s \in { S_IR, S_ir, S_PUP, S_Pup, S_NFI, S_nfi, S_Suspended, S_SUSPENDED,
                          S_Inactive, S_Practice_Squad, S_PRACTICE_SQUAD,
                          S_PRACTICE_underscore_SQUAD, S_practice_underscore_squad,
                          S_Active, S_Out, S_out, S_OUT, S_Doubtful, S_DOUBTFUL,
                          S_Questionable, S_QUESTIONABLE, S_Probable, S_IR_padded, S_OUTS } }

\* the points the gate is applied to
GatePoints == {0, 10}

\* records that stand in the availability set next to the one made of the two
\* status strings
OtherRecords ==
    [s2 |-> PyDict([status |-> PyStr(S_Active), injury_status |-> PyStr(S_Questionable)]),
     s3 |-> PyDict([status |-> PyStr(S_ir), injury_status |-> EmptyStr])]

\* the availability set with the record s1 and the records ids of OtherRecords
RecordSet(status, injury_status, ids) ==
    PyDict([k \in {"s1"} \cup ids |->
              IF k = "s1"
              THEN PyDict([status |-> status, injury_status |-> injury_status])
              ELSE OtherRecords[k]])

InitGate ==
    /\ g_status \in GateInputs
    /\ g_injury \in GateInputs
    /\ g_out = "idle"
    /\ g_points \in GatePoints
    /\ g_adj = [n |-> 0]
    /\ g_summary = [kind |-> "none"]
    /\ IdleFetch /\ IdlePipe /\ IdleProj /\ IdleEng /\ IdleMap /\ IdleScore

Decide ==
    /\ g_out = "idle"
    /\ g_out' = decision_from_fields(g_status, g_injury)
    /\ UNCHANGED <<g_status, g_injury, g_points, g_adj, g_summary>>
    /\ UNCHANGED <<fetchVars, pipeVars, projVars, engVars, mapVars, scoreVars>>

\* apply_injury_gate(points, status, injury_status): on the points first, then
\* once more on what it returned
Gate ==
    /\ g_adj.n < 2
    /\ \E r \in { apply_injury_gate(IF g_adj.n = 0 THEN g_points ELSE g_adj.v,
                                     g_status, g_injury) } :
          g_adj' = [n |-> g_adj.n + 1, raised |-> r.raised, v |-> r.v,
                    first |-> IF g_adj.n = 0 THEN r.v ELSE g_adj.first]
    /\ UNCHANGED <<g_status, g_injury, g_out, g_points, g_summary>>
    /\ UNCHANGED <<fetchVars, pipeVars, projVars, engVars, mapVars, scoreVars>>

\* get_injury_summary(injury_data)
Summarize ==
    /\ g_summary.kind = "none"
    /\ \E ids \in SUBSET (DOMAIN OtherRecords) :
          LET injury_data == RecordSet(g_status, g_injury, ids)
          IN  g_summary' = [kind |-> "done", injury_data |-> injury_data,
                            out |-> get_injury_summary(injury_data)]
    /\ UNCHANGED <<g_status, g_injury, g_out, g_points, g_adj>>
    /\ UNCHANGED <<fetchVars, pipeVars, projVars, engVars, mapVars, scoreVars>>

NextGate == Decide \/ Gate \/ Summarize

SpecGate == InitGate /\ [][NextGate]_vars

(***************************************************************************)
(* The documents the remote endpoint is taken to answer with.              *)
(***************************************************************************)
\* an injured-reserve player and a player ruled out who is second on the depth chart
PayloadInjured ==
    PyDict([s1 |-> PyDict([status |-> PyStr(S_IR), injury_status |-> EmptyStr]),
            s2 |-> PyDict([status |-> PyStr(S_Active), injury_status |-> PyStr(S_Out),
                           depth_chart_order |-> PyInt(2)])])
\* a record with every key missing and a record that is no dict
PayloadSparse ==
    PyDict([s1 |-> PyDict(<< >>), s2 |-> PyStr(S_Active)])
\* a questionable starter and a benched player whose statuses are null
PayloadBenched ==
    PyDict([s1 |-> PyDict([status |-> PyStr(S_Active),
                           injury_status |-> PyStr(S_Questionable),
                           depth_chart_order |-> PyInt(1)]),
            s2 |-> PyDict([status |-> PyNone, injury_status |-> PyNone,
                           depth_chart_order |-> PyInt(3)])])
\* a roster status that is a number
PayloadNumericStatus ==
    PyDict([s1 |-> PyDict([status |-> PyInt(5)])])
\* an injured-reserve player and a player whose injury status is a number
PayloadNumericInjury ==
    PyDict([s1 |-> PyDict([status |-> PyStr(S_IR)]),
            s2 |-> PyDict([status |-> PyStr(S_Active), injury_status |-> PyInt(7)])])
\* a benched player and a player whose depth chart order is a string
PayloadTextOrder ==
    PyDict([s1 |-> PyDict([depth_chart_order |-> PyInt(2)]),
            s2 |-> PyDict([depth_chart_order |-> PyStr(<< "2" >>)])])

Payloads ==
    { PayloadInjured, PayloadSparse, PayloadBenched, PayloadNumericStatus,
      PayloadNumericInjury, PayloadTextOrder, EmptyDict, PyList, PyNone }

\* the documents that tell the paths of a fetch cycle apart
FetchPayloads ==
    { PayloadInjured, PayloadSparse, PayloadNumericStatus, EmptyDict, PyList, PyNone }

\* the endpoint fails in the first `fails` attempts and then answers doc
ResponsesOf(fails, doc) ==
    [a \in 0..max_retries |-> IF a < fails THEN RequestException ELSE Response(doc)]

\* hours that pass in one step of the clock, and how many such steps are taken
TickHours == 12
MaxTicks == 3

\* the snapshot files a process can find when it starts at time t
InitSnapshots(t) ==
    { AbsentFile, CorruptFile } \cup
    { save_players_snapshot(AbsentFile, doc, ts, "ok") :
        doc \in { PayloadInjured, PyList },
        ts \in { t, t - (SNAPSHOT_MAX_AGE_HOURS + 1) } }

NoCycle == [kind |-> "none"]
NoLive == [kind |-> "none"]

\* the record kept of a fetch cycle run at time t: how often the endpoint
\* failed, what it answered then, what the two writes did, and the result r
CycleRecord(r, fails, doc, save_outcome, cache_outcome, t) ==
    [kind |-> "done", at |-> t, fails |-> fails, doc |-> doc,
     save_outcome |-> save_outcome, cache_outcome |-> cache_outcome,
     raised |-> r.raised, ret |-> r.ret,
     source |-> r.source, attempts |-> r.attempts, sleeps |-> r.sleeps,
     snapshot_read |-> r.snapshot_read]

\* what is known of the fetch that wrote the snapshot, after a cycle with result r
LiveAfter(r, file, old, t) ==
    IF r.snapshot = file THEN old
    ELSE IF r.snapshot.state # "text" THEN NoLive
    ELSE [kind |-> IF r.raised = "no" THEN "returned" ELSE "raised", ret |-> r.ret, at |-> t]

(***************************************************************************)
(* SpecFetch: fetch cycles of one fetcher, with time passing between them. *)
(***************************************************************************)
InitFetch ==
    /\ now = 0
    /\ snapshot \in InitSnapshots(0)
    /\ ir_cache = AbsentFile
    /\ cycle = NoCycle
    /\ live = NoLive
    /\ IdleGate /\ IdlePipe /\ IdleProj /\ IdleEng /\ IdleMap /\ IdleScore

\* The inputs of a cycle that are told apart: an endpoint that answers at once,
\* with every document and every outcome of the two writes; an endpoint that
\* answers after one or two failed attempts; an endpoint that never answers.
CycleInputs(fails, doc, save_outcome, cache_outcome) ==
    \/ fails = 0
    \/ /\ fails \in 1..max_retries
       /\ doc = PayloadInjured /\ save_outcome = "ok" /\ cache_outcome = "ok"
    \/ /\ fails = max_retries + 1
       /\ doc = PyNone /\ save_outcome = "ok" /\ cache_outcome = "ok"

\* one call of get_injury_data_with_cache()
Cycle ==
    /\ \E fails \in 0..(max_retries + 1), doc \in FetchPayloads,
          save_outcome \in WriteOutcomes, cache_outcome \in WriteOutcomes :
          /\ CycleInputs(fails, doc, save_outcome, cache_outcome)
          /\ LET r == get_injury_data_with_cache(ResponsesOf(fails, doc), snapshot,
                                                 ir_cache, now, save_outcome, cache_outcome)
             IN  /\ cycle' = CycleRecord(r, fails, doc, save_outcome, cache_outcome, now)
                 /\ snapshot' = r.snapshot
                 /\ ir_cache' = r.ir_cache
                 /\ live' = LiveAfter(r, snapshot, live, now)
    /\ UNCHANGED now
    /\ UNCHANGED <<gateVars, pipeVars, projVars, engVars, mapVars, scoreVars>>

Tick ==
    /\ now < TickHours * MaxTicks
    /\ now' = now + TickHours
    /\ UNCHANGED <<snapshot, ir_cache, cycle, live>>
    /\ UNCHANGED <<gateVars, pipeVars, projVars, engVars, mapVars, scoreVars>>

NextFetch == Cycle \/ Tick

SpecFetch == InitFetch /\ [][NextFetch]_vars

(***************************************************************************)
(* Spec: the availability filter pipeline of one weekly request, from the  *)
(* call of _apply_availability_filters on the sorted projection table.     *)
(***************************************************************************)
\* the largest table the request is made with
MaxRows == 2

\* the roster: position and team of each stats id
Roster ==
    [g1 |-> [position |-> "QB", team |-> "KC"],
     g2 |-> [position |-> "RB", team |-> "SF"],
     g3 |-> [position |-> "QB", team |-> "KC"]]

\* what a projector returns for a row: estimate and bounds, in points
Estimates ==
    { [projected_points |-> 20, confidence_lower |-> 15, confidence_upper |-> 25],
      [projected_points |-> 0, confidence_lower |-> 0, confidence_upper |-> 5] }

Rows ==
    { [player_id |-> g, position |-> Roster[g].position, team |-> Roster[g].team,
       projected_points |-> e.projected_points,
       confidence_lower |-> e.confidence_lower,
       confidence_upper |-> e.confidence_upper] : g \in DOMAIN Roster, e \in Estimates }

\* lines 161-162 of the engine: one row per player, sorted by projected_points,
\* highest first
TablesOfLen(n) ==
    { t \in [1..n -> Rows] :
        /\ \A i, j \in 1..n : i # j => t[i].player_id # t[j].player_id
        /\ \A i \in 1..(n - 1) : t[i].projected_points >= t[i + 1].projected_points }

InitTables == UNION { TablesOfLen(n) : n \in 1..MaxRows }

\* a season in which KC and SF play each other every week, except that KC
\* rests in the weeks kc_byes and SF in the weeks sf_byes; the one that does
\* not rest then hosts DAL
GamesWithByes(kc_byes, sf_byes) ==
    [t |-> "games",
     v |-> { [home_team |-> "KC", away_team |-> "SF", week |-> w] :
               w \in all_weeks \ (kc_byes \cup sf_byes) }
           \cup { [home_team |-> "SF", away_team |-> "DAL", week |-> w] :
                    w \in kc_byes \ sf_byes }
           \cup { [home_team |-> "KC", away_team |-> "DAL", week |-> w] :
                    w \in sf_byes \ kc_byes }]

\* the schedules of the request for week 5: one that cannot be loaded, one in
\* which KC rests in week 5 and SF in two weeks, one in which nobody rests in
\* week 5, one in which SF rests in weeks 5 and 6 and hosts DAL in week 7
Schedules ==
    { [t |-> "unavailable"], GamesWithByes({5}, {5, 6}), GamesWithByes({6}, {}),
      GamesWithByes({7}, {5, 6}) }

\* the snapshot files the request can find
PipeSnapshots ==
    { AbsentFile,
      save_players_snapshot(AbsentFile, PayloadInjured, 0, "ok"),
      save_players_snapshot(AbsentFile, PayloadInjured,
                            0 - (SNAPSHOT_MAX_AGE_HOURS + 1), "ok") }

\* The inputs of the fetch cycle a filter starts that are told apart: the
\* endpoint answers at once with any document; it answers and the snapshot
\* write fails; it never answers.
PipeCycleInputs(fails, doc, save_outcome, cache_outcome) ==
    \/ fails = 0 /\ save_outcome = "ok" /\ cache_outcome = "ok"
    \/ /\ fails = 0 /\ doc = PayloadInjured
       /\ save_outcome = "dump_fails" /\ cache_outcome = "ok"
    \/ /\ fails = max_retries + 1
       /\ doc = PyNone /\ save_outcome = "ok" /\ cache_outcome = "ok"

NoStage == [stage |-> "none"]
StageRecord(stage, before, res) ==
    [stage |-> stage, before |-> before, caught |-> res.caught,
     zeroed_count |-> res.zeroed_count]

Init ==
    /\ pc = "bye"
    /\ table \in InitTables
    /\ \E injury_filter \in BOOLEAN, qb_benching_filter \in BOOLEAN, schedules \in Schedules :
          cfg = [injury_filter |-> injury_filter,
                 qb_benching_filter |-> qb_benching_filter,
                 week |-> 5, schedules |-> schedules, input |-> table]
    /\ last = NoStage
    /\ order = << >>
    /\ now = 0
    /\ snapshot \in PipeSnapshots
    /\ ir_cache = AbsentFile
    /\ cycle = NoCycle
    /\ live = NoLive
    /\ IdleGate /\ IdleProj /\ IdleEng /\ IdleMap /\ IdleScore

\* _apply_bye_week_filter(projections_df, week, season)
ByeStage ==
    /\ pc = "bye"
    /\ LET res == apply_bye_week_filter(table, cfg.week, cfg.schedules)
       IN  /\ table' = res.df
           /\ last' = StageRecord("bye", table, res)
    /\ order' = Append(order, "bye")
    /\ pc' = stage_after("bye", cfg)
    /\ UNCHANGED cfg
    /\ UNCHANGED <<fetchVars, gateVars, projVars, engVars, mapVars, scoreVars>>

\* _apply_injury_filter(projections_df), with the fetch cycle it starts; the
\* endpoint answers one of docs
InjuryStageOn(docs) ==
    /\ pc = "injury"
    /\ \E fails \in 0..(max_retries + 1), doc \in docs,
          save_outcome \in WriteOutcomes, cache_outcome \in WriteOutcomes :
          /\ PipeCycleInputs(fails, doc, save_outcome, cache_outcome)
          /\ LET r == get_injury_data_with_cache(ResponsesOf(fails, doc), snapshot,
                                                 ir_cache, now, save_outcome, cache_outcome)
                 res == apply_injury_filter(table, r)
             IN  /\ table' = res.df
                 /\ last' = StageRecord("injury", table, res)
                 /\ cycle' = CycleRecord(r, fails, doc, save_outcome, cache_outcome, now)
                 /\ snapshot' = r.snapshot
                 /\ ir_cache' = r.ir_cache
                 /\ live' = LiveAfter(r, snapshot, live, now)
    /\ order' = Append(order, "injury")
    /\ pc' = stage_after("injury", cfg)
    /\ UNCHANGED <<cfg, now>>
    /\ UNCHANGED <<gateVars, projVars, engVars, mapVars, scoreVars>>

InjuryStage == InjuryStageOn(Payloads)

\* _apply_qb_benching_filter(projections_df), with the fetch cycle it starts
BenchStageOn(docs) ==
    /\ pc = "bench"
    /\ \E fails \in 0..(max_retries + 1), doc \in docs,
          save_outcome \in WriteOutcomes, cache_outcome \in WriteOutcomes :
          /\ PipeCycleInputs(fails, doc, save_outcome, cache_outcome)
          /\ LET r == get_injury_data_with_cache(ResponsesOf(fails, doc), snapshot,
                                                 ir_cache, now, save_outcome, cache_outcome)
                 res == apply_qb_benching_filter(table, r)
             IN  /\ table' = res.df
                 /\ last' = StageRecord("bench", table, res)
                 /\ cycle' = CycleRecord(r, fails, doc, save_outcome, cache_outcome, now)
                 /\ snapshot' = r.snapshot
                 /\ ir_cache' = r.ir_cache
                 /\ live' = LiveAfter(r, snapshot, live, now)
    /\ order' = Append(order, "bench")
    /\ pc' = stage_after("bench", cfg)
    /\ UNCHANGED <<cfg, now>>
    /\ UNCHANGED <<gateVars, projVars, engVars, mapVars, scoreVars>>

BenchStage == BenchStageOn(Payloads)

Next == ByeStage \/ InjuryStage \/ BenchStage

Spec == Init /\ [][Next]_vars

(***************************************************************************)
(* SpecProj: one position projector, fitted on a training set and asked    *)
(* for weekly and seasonal projections of a player history.  A predict     *)
(* call leaves the projector as it is, so one call after each fit shows    *)
(* every result the projector can return.                                  *)
(***************************************************************************)
\* the longest player history of a predict call
MaxGames == 4

Positions == {"QB", "RB"}
\* fantasy points of a game of a player history, in points
GamePoints == {0 - 5, 0, 10}
Seasons == {2023, 2024}
\* the season a projection is asked for
TargetSeason == { s \in Seasons : \A o \in Seasons : o <= s }

Game(pos, player_id, season, points) ==
    [position |-> pos, player_id |-> player_id, season |-> season,
     fantasy_points |-> points]

\* training frames as load_player_stats returns them: every position has a
\* game.  In the first each position has one game, in the third the QB games
\* have the same points.
TrainingSets ==
    { << Game("QB", "g1", 2024, 10), Game("RB", "g2", 2024, 10) >>,
      << Game("QB", "g1", 2024, 10), Game("QB", "g1", 2024, 20),
         Game("RB", "g2", 2024, 0), Game("RB", "g2", 2023, 10) >>,
      << Game("QB", "g1", 2024, 10), Game("QB", "g3", 2023, 10),
         Game("RB", "g2", 2024, 5), Game("RB", "g2", 2024, 5),
         Game("RB", "g2", 2023, 20) >> }

\* the histories of one player of the projector's position: most recent game
\* first
HistoriesOfLen(pos, n) ==
    { h \in [1..n -> { Game(pos, "g1", s, pts) : s \in Seasons, pts \in GamePoints }] :
        \A i \in 1..(n - 1) : h[i].season >= h[i + 1].season }

Histories(pos) == UNION { HistoriesOfLen(pos, n) : n \in 0..MaxGames }

NoCall == [kind |-> "none"]

InitProj ==
    /\ position \in Positions
    /\ is_trained = FALSE
    /\ model_params = [kind |-> "none"]
    /\ p_in = NoCall
    /\ p_out = NoCall
    /\ IdleGate /\ IdleFetch /\ IdlePipe /\ IdleEng /\ IdleMap /\ IdleScore

\* projector.fit(training_data)
Fit ==
    /\ \E training_data \in TrainingSets :
          model_params' = fit(position, training_data)
    /\ is_trained' = TRUE
    /\ p_in' = NoCall
    /\ p_out' = NoCall
    /\ UNCHANGED position
    /\ UNCHANGED <<gateVars, fetchVars, pipeVars, engVars, mapVars, scoreVars>>

\* projector.predict_weekly(player_data, week, season)
PredictWeekly ==
    /\ p_out = NoCall
    /\ \E player_data \in Histories(position), season \in TargetSeason :
          /\ p_in' = [kind |-> "weekly", player_data |-> player_data, season |-> season]
          /\ p_out' = raise_unless_trained(is_trained, "weekly",
                            predict_weekly(position, model_params, player_data, season))
    /\ UNCHANGED <<position, model_params, is_trained>>
    /\ UNCHANGED <<gateVars, fetchVars, pipeVars, engVars, mapVars, scoreVars>>

\* projector.predict_seasonal(player_data, season)
PredictSeasonal ==
    /\ p_out = NoCall
    /\ \E player_data \in Histories(position), season \in TargetSeason :
          /\ p_in' = [kind |-> "seasonal", player_data |-> player_data, season |-> season]
          /\ p_out' = raise_unless_trained(is_trained, "seasonal",
                            predict_seasonal(position, model_params, player_data, season))
    /\ UNCHANGED <<position, model_params, is_trained>>
    /\ UNCHANGED <<gateVars, fetchVars, pipeVars, engVars, mapVars, scoreVars>>

NextProj == Fit \/ PredictWeekly \/ PredictSeasonal

SpecProj == InitProj /\ [][NextProj]_vars

(***************************************************************************)
(* SpecEngine: one projection engine and the public calls made on it, one  *)
(* after the other: fit, weekly and seasonal batch requests, player-detail *)
(* requests.  A weekly request runs the filter stages before it returns.   *)
(***************************************************************************)
\* the seasons an explicit fit is given: none (the default window) or one season
FitSeasons ==
    { PyNone, SeasonList(<< current_season >>), SeasonList(<< current_season - 1 >>) }
\* the target weeks of the requests: KC rests in the first
RequestWeeks == {5, 6}
\* the player ids of the player-detail requests: g9 is on no roster
RequestedPlayers == {"g1", "g3", "g4", "g6", "g9"}
\* what the availability endpoint can answer to the engine
EnginePayloads == { PayloadInjured, PyNone }

TheEngine == Engine(is_fitted, cached_training_data, projectors)

\* no request is in progress
Quiet == pc \in {"off", "done"}

\* the engine after a call with outcome o
EngineBecomes(o) ==
    /\ is_fitted' = o.e.is_fitted
    /\ cached_training_data' = o.e.training_data
    /\ projectors' = o.e.projectors

\* the record kept of a call: its arguments, the engine before it and what
\* Outcome holds
Call(op, args, o) ==
    [op |-> op, args |-> args, before |-> TheEngine, raised |-> o.raised,
     fit_ran |-> o.fit_ran, ret |-> o.ret]

\* ProjectionEngine(injury_filter=...)
InitEngine ==
    /\ is_fitted = FALSE
    /\ cached_training_data = PyNone
    /\ projectors = NewProjectors
    /\ request = [op |-> "none"]
    /\ pc = "off"
    /\ table = << >>
    /\ \E injury_filter \in BOOLEAN :
          cfg = [injury_filter |-> injury_filter, qb_benching_filter |-> FALSE,
                 week |-> 0, schedules |-> GamesWithByes({5}, {}), input |-> << >>]
    /\ last = NoStage
    /\ order = << >>
    /\ now = 0
    /\ snapshot = AbsentFile
    /\ ir_cache = AbsentFile
    /\ cycle = NoCycle
    /\ live = NoLive
    /\ IdleGate /\ IdleProj /\ IdleMap /\ IdleScore

\* the table of the last batch request is dropped
NoTable ==
    /\ pc' = "off"
    /\ table' = << >>
    /\ cfg' = [cfg EXCEPT !.week = 0, !.input = << >>]
    /\ last' = NoStage
    /\ order' = << >>

\* engine.fit(seasons)
ExplicitFit ==
    /\ Quiet
    /\ \E seasons \in FitSeasons, outage \in FitOutages :
          \E o \in { engine_fit(TheEngine, seasons, outage) } :
              /\ EngineBecomes(o)
              /\ request' = Call("fit", [seasons |-> seasons, outage |-> outage], o)
    /\ NoTable
    /\ UNCHANGED <<gateVars, fetchVars, projVars, mapVars, scoreVars>>

\* engine.get_weekly_projections(week, season), up to the call of
\* _apply_availability_filters; without projections it returns an empty table
WeeklyRequest ==
    /\ Quiet
    /\ \E week \in RequestWeeks, outage \in Outages :
          \E o \in { batch_request(TheEngine, "weekly", week, current_season, outage) } :
          LET rows == IF o.raised = "no" THEN o.ret ELSE << >>
          IN  /\ EngineBecomes(o)
              /\ request' = Call("weekly", [week |-> week, season |-> current_season], o)
              /\ table' = rows
              /\ cfg' = [cfg EXCEPT !.week = week, !.input = rows]
              /\ pc' = first_stage("weekly", rows)
    /\ last' = NoStage
    /\ order' = << >>
    /\ UNCHANGED <<gateVars, fetchVars, projVars, mapVars, scoreVars>>

\* engine.get_seasonal_projections(season)
SeasonalRequest ==
    /\ Quiet
    /\ \E outage \in Outages :
          \E o \in { batch_request(TheEngine, "seasonal", 0, current_season, outage) } :
          LET rows == IF o.raised = "no" THEN o.ret ELSE << >>
          IN  /\ EngineBecomes(o)
              /\ request' = Call("seasonal", [season |-> current_season], o)
              /\ table' = rows
              /\ cfg' = [cfg EXCEPT !.week = 0, !.input = rows]
              /\ pc' = first_stage("seasonal", rows)
    /\ last' = NoStage
    /\ order' = << >>
    /\ UNCHANGED <<gateVars, fetchVars, projVars, mapVars, scoreVars>>

\* engine.get_player_projection(player_id, projection_type, week, season)
PlayerRequest ==
    /\ Quiet
    /\ \E player_id \in RequestedPlayers, projection_type \in {"weekly", "seasonal"},
          week \in {PyNone, PyInt(5)}, outage \in Outages :
          \E o \in { get_player_projection(TheEngine, player_id, projection_type, week,
                                            current_season, outage) } :
              /\ EngineBecomes(o)
              /\ request' = Call("player",
                                 [player_id |-> player_id, projection_type |-> projection_type,
                                  week |-> week, season |-> current_season], o)
    /\ NoTable
    /\ UNCHANGED <<gateVars, fetchVars, projVars, mapVars, scoreVars>>

EngineInjuryStage == InjuryStageOn(EnginePayloads)

NextEngine ==
    \/ ExplicitFit
    \/ WeeklyRequest
    \/ SeasonalRequest
    \/ PlayerRequest
    \/ ByeStage
    \/ EngineInjuryStage

SpecEngine == InitEngine /\ [][NextEngine]_vars

(***************************************************************************)
(* SpecMapper: the identity mapper built from its CSV table.               *)
(***************************************************************************)
MaxMapRows == 3

S_g1 == << "g", "1" >>
S_g1_padded == << " ", "g", "1", " " >>
S_g2 == << "g", "2" >>
S_s1 == << "s", "1" >>
S_s2 == << "s", "2" >>
S_blank == << " " >>

\* the rows DictReader yields: a field is the text of its cell, or None when
\* the line is shorter than the header; a line has one cell at least
MappingRows ==
    { row \in [gsis_id : { PyNone, PyStr(S_blank), PyStr(S_g1), PyStr(S_g1_padded),
                           PyStr(S_g2) },
               sleeper_id : { PyNone, EmptyStr, PyStr(S_s1), PyStr(S_s2) }] :
        row.gsis_id # PyNone \/ row.sleeper_id # PyNone }

MappingFiles ==
    { [state |-> "absent"] } \cup
    { [state |-> "rows", rows |-> rows] :
        rows \in UNION { [1..n -> MappingRows] : n \in 0..MaxMapRows } }

InitMapper ==
    /\ mapping_file \in MappingFiles
    /\ mapper = [kind |-> "none"]
    /\ lookup = [kind |-> "none"]
    /\ IdleGate /\ IdleFetch /\ IdlePipe /\ IdleProj /\ IdleEng /\ IdleScore

\* PlayerIDMapper(): the constructor, which loads the table
Construct ==
    /\ mapper.kind = "none"
    /\ \E m \in { load_mapping(mapping_file) } :
          mapper' = [kind |-> "built", raised |-> "no", caught |-> m.caught,
                     gsis_to_sleeper |-> m.gsis_to_sleeper,
                     sleeper_to_gsis |-> m.sleeper_to_gsis]
    /\ UNCHANGED <<mapping_file, lookup>>
    /\ UNCHANGED <<gateVars, fetchVars, pipeVars, projVars, engVars, scoreVars>>

\* the ids the mapper is asked for: ids of the files, with and without
\* padding, and an id of no file
LookupIds == { S_g1, S_g2, S_g1_padded, S_s1, S_s2, << "x" >> }

\* one id asked in both directions, each answer asked back in the other
\* direction, and has_mapping of the id
Lookup ==
    /\ mapper.kind = "built"
    /\ lookup.kind = "none"
    /\ \E id \in LookupIds :
          LET forward == gsis_to_sleeper_get(mapper, PyStr(id))
              backward == sleeper_to_gsis_id(mapper, PyStr(id))
          IN  lookup' = [kind |-> "done", id |-> PyStr(id),
                         forward |-> forward,
                         back_of_forward |-> sleeper_to_gsis_id(mapper, forward),
                         backward |-> backward,
                         forward_of_backward |-> gsis_to_sleeper_get(mapper, backward),
                         has_mapping |-> has_mapping(mapper, PyStr(id))]
    /\ UNCHANGED <<mapping_file, mapper>>
    /\ UNCHANGED <<gateVars, fetchVars, pipeVars, projVars, engVars, scoreVars>>

NextMapper == Construct \/ Lookup

SpecMapper == InitMapper /\ [][NextMapper]_vars

(***************************************************************************)
(* SpecScoring: an engine made with a preset name scores a stat line.      *)
(***************************************************************************)
\* the most keys a stat line has
MaxStats == 2

\* the names an engine is made with: the presets and three that are none
PresetNames == ScoringTypes \cup {"PPR", "half", ""}

\* the keys of a stat line: those the scoring reads and one it does not
StatKeys ==
    {"passing_yards", "passing_tds", "interceptions", "passing_2pt",
     "rushing_yards", "rushing_tds", "rushing_2pt",
     "receiving_yards", "receiving_tds", "receiving_2pt", "receptions",
     "fumbles_lost", "targets"}

\* the values of a stat: -3, 1 and 12.6
StatValues == { Whole(0 - 3), Whole(1), Float(12600) }

StatLines ==
    UNION { [keys -> StatValues] : keys \in { k \in SUBSET StatKeys : Cardinality(k) <= MaxStats } }

InitScoring ==
    /\ sc_name \in PresetNames
    /\ sc_stats \in StatLines
    /\ sc_system = [state |-> "none"]
    /\ sc_points = [kind |-> "none"]
    /\ IdleGate /\ IdleFetch /\ IdlePipe /\ IdleProj /\ IdleEng /\ IdleMap

\* ProjectionEngine(scoring_system=name)
NewEngine ==
    /\ sc_system.state = "none"
    /\ sc_system' = engine_scoring_system(sc_name)
    /\ UNCHANGED <<sc_name, sc_stats, sc_points>>
    /\ UNCHANGED <<gateVars, fetchVars, pipeVars, projVars, engVars, mapVars>>

\* engine.scoring_system.calculate_fantasy_points(stats)
Calculate ==
    /\ sc_system.state = "made"
    /\ sc_points.kind = "none"
    /\ sc_points' = [kind |-> "returned",
                     v |-> calculate_fantasy_points(sc_system.system, sc_stats)]
    /\ UNCHANGED <<sc_name, sc_stats, sc_system>>
    /\ UNCHANGED <<gateVars, fetchVars, pipeVars, projVars, engVars, mapVars>>

NextScoring == NewEngine \/ Calculate

SpecScoring == InitScoring /\ [][NextScoring]_vars

(***************************************************************************)
(* Claims about the injury gate.                                           *)
(***************************************************************************)
\* two strings are the same when compared case-insensitively
SameIgnoringCase(a, b) ==
    /\ Len(a) = Len(b)
    /\ \A i \in 1..Len(a) :
          \/ a[i] = b[i]
          \/ \E k \in DOMAIN LowerCase : {a[i], b[i]} = {LowerCase[k], UpperCase[k]}

StatusIn(x, S) == x.t = "str" /\ \E m \in S : SameIgnoringCase(x.v, m)

\* the long-term-absence set as the claim C1 writes it, PRACTICE_SQUAD with an underscore
WrittenLongTermAbsence ==
    { S_IR, S_PUP, S_NFI, S_SUSPENDED, S_INACTIVE, S_PRACTICE_underscore_SQUAD }
\* the same set with the last member written with a space
SpacedLongTermAbsence ==
    { S_IR, S_PUP, S_NFI, S_SUSPENDED, S_INACTIVE, S_PRACTICE_SQUAD }
WrittenGameAbsence == { S_OUT, S_DOUBTFUL, S_IR, S_PUP }

C2_InjuryStatusDecides ==
    (g_out # "idle" /\ ~StatusIn(g_status, SpacedLongTermAbsence)) =>
        /\ g_out \in {"zero", "pass"}
        /\ g_out = "zero" <=> StatusIn(g_injury, WrittenGameAbsence)

C2_Witness ==
    /\ g_out = "pass"
    /\ g_status = PyNone
    /\ g_injury = PyStr(S_Questionable)

\* C15: apply_injury_gate returns 0 when the decision for the two statuses is
\* "zero" and the points it was given otherwise; applied again to what it
\* returned, with the same statuses, it returns the same value.
C15_GateZeroOrUnchanged ==
    g_adj.n >= 1 =>
        /\ g_adj.raised = "no"
        /\ decision_from_fields(g_status, g_injury) = "zero" => g_adj.first = 0
        /\ decision_from_fields(g_status, g_injury) # "zero" => g_adj.first = g_points
        /\ g_adj.v = g_adj.first

C15_Witness ==
    /\ g_adj.n = 2
    /\ g_points > 0
    /\ g_status = PyStr(S_Active)
    /\ g_injury = PyStr(S_Doubtful)
    /\ g_adj.first = 0
    /\ g_adj.v = 0

\* the two status strings of a record as the summary reads them
RecordStatus(rec, key) == PyOr(dict_get(rec, key, EmptyStr), EmptyStr)
RecordDecision(rec) ==
    decision_from_fields(RecordStatus(rec, "status"), RecordStatus(rec, "injury_status"))

\* C16: get_injury_summary counts every record once: zeroed + questionable +
\* active = total = the number of records; zeroed counts the records the gate
\* decides "zero" for, questionable those it decides "pass" for and whose
\* injury status is QUESTIONABLE in any case.
C16_SummaryPartitions ==
    g_summary.kind = "done" =>
        LET d == g_summary.injury_data.v
            out == g_summary.out
        IN  /\ out.raised = "no"
            /\ out.total = Cardinality(DOMAIN d)
            /\ out.zeroed + out.questionable + out.active = out.total
            /\ out.zeroed = Cardinality({ k \in DOMAIN d : RecordDecision(d[k]) = "zero" })
            /\ out.questionable =
                  Cardinality({ k \in DOMAIN d :
                                  /\ RecordDecision(d[k]) = "pass"
                                  /\ StatusIn(RecordStatus(d[k], "injury_status"),
                                              {S_QUESTIONABLE}) })

C16_Witness ==
    /\ g_summary.kind = "done"
    /\ g_status = PyStr(S_IR)
    /\ g_injury = PyStr(S_Questionable)
    /\ DOMAIN g_summary.injury_data.v = {"s1", "s2", "s3"}
    /\ g_summary.out.zeroed = 2
    /\ g_summary.out.questionable = 1
    /\ g_summary.out.active = 0

(***************************************************************************)
(* Claims about the availability fetcher.                                  *)
(***************************************************************************)
\* C5: a fetch cycle never raises: whatever the endpoint answers, whatever the
\* snapshot file holds and whatever the cache writes do, it returns a
\* normalized record set.
C5_CycleNeverRaises ==
    cycle.kind = "done" => (cycle.raised = "no" /\ cycle.ret.t = "dict")

\* C10: when a live fetch returned a record set and its snapshot was written,
\* a later cycle in which every attempt fails, run at most 24 hours after it,
\* returns the same normalized record set.
C10_SnapshotRoundTrip ==
    ( /\ cycle.kind = "done"
      /\ cycle.fails = max_retries + 1
      /\ live.kind = "returned"
      /\ cycle.at - live.at <= SNAPSHOT_MAX_AGE_HOURS ) =>
        (cycle.raised = "no" /\ cycle.ret = live.ret)

C10_Witness ==
    /\ cycle.kind = "done"
    /\ cycle.fails = max_retries + 1
    /\ live.kind = "returned"
    /\ live.ret = normalize_player_data(PayloadSparse)
    /\ cycle.at - live.at = SNAPSHOT_MAX_AGE_HOURS
    /\ cycle.source = "snapshot"
    /\ cycle.ret = live.ret

\* the snapshot file a cycle that failed on every attempt found, and its age
\* in hours at the time of the cycle (such a cycle writes no snapshot)
FoundSnapshot ==
    cycle.kind = "done" /\ cycle.fails = max_retries + 1 /\ snapshot.state = "text"
FoundDoc == json_load(snapshot.text).v
FoundAge == cycle.at - fromisoformat(FoundDoc.timestamp)

\* C11: when every live attempt fails, a snapshot stamped more than 24 hours
\* before the cycle is discarded and the cycle returns the empty record set; a
\* snapshot stamped at most 24 hours before is the source of the cycle, and
\* the records it holds are returned.
C11_StaleSnapshotDiscarded ==
    FoundSnapshot =>
        /\ FoundAge > SNAPSHOT_MAX_AGE_HOURS =>
              (cycle.raised = "no" /\ cycle.source = "none" /\ cycle.ret = EmptyDict)
        /\ FoundAge <= SNAPSHOT_MAX_AGE_HOURS =>
              /\ cycle.source = "snapshot"
              /\ FoundDoc.data.t = "dict" =>
                    (cycle.raised = "no" /\ cycle.ret = normalize_player_data(FoundDoc.data))

C11_Witness ==
    /\ FoundSnapshot
    /\ live.kind = "returned"
    /\ FoundDoc.data = PayloadInjured
    /\ FoundAge > SNAPSHOT_MAX_AGE_HOURS
    /\ cycle.ret = EmptyDict
    /\ cycle.snapshot_read

\* a cycle whose fetch got a record set from the endpoint while a write failed
WriteFailed ==
    /\ cycle.kind = "done"
    /\ cycle.fails <= max_retries
    /\ cycle.doc.t = "dict"
    /\ (cycle.save_outcome # "ok" \/ cycle.cache_outcome # "ok")

\* C28: when the endpoint answers a record set and the write of the snapshot
\* file or of the zeroed-status id cache fails, the cycle raises no error of
\* the write: it returns the normalized records of the answer (or raises what
\* listing the zeroed-status ids of these records raises).
C28_WritesAreBestEffort ==
    WriteFailed =>
        \/ cycle.raised = "no" /\ cycle.ret = normalize_player_data(cycle.doc)
        \/ /\ cycle.raised # "no"
           /\ cycle.raised = get_ir_players(normalize_player_data(cycle.doc)).t

\* both writes fail and the records of the answer are returned
C28_Witness ==
    /\ WriteFailed
    /\ cycle.save_outcome = "dump_fails"
    /\ cycle.cache_outcome = "open_fails"
    /\ cycle.doc = PayloadInjured
    /\ cycle.raised = "no"
    /\ cycle.ret = normalize_player_data(PayloadInjured)
    /\ snapshot = CorruptFile

\* C29: a cycle calls the endpoint at most max_retries + 1 = 3 times and not
\* again after the first answer; after failed attempt k (from 0) that is not
\* the last it waits backoff_factor * 2^k; the snapshot is read only when
\* all 3 attempts have failed.
C29_RetriesAndBackoff ==
    cycle.kind = "done" =>
        /\ cycle.attempts <= max_retries + 1
        /\ max_retries + 1 = 3
        /\ cycle.attempts = (IF cycle.fails <= max_retries THEN cycle.fails + 1
                             ELSE max_retries + 1)
        /\ cycle.sleeps = [k \in 1..(cycle.attempts - 1) |-> backoff_factor * 2 ^ (k - 1)]
        /\ cycle.snapshot_read =>
              (cycle.fails = max_retries + 1 /\ cycle.attempts = max_retries + 1)

\* the endpoint answers in the third attempt, after waits of 0.5 s and 1 s
C29_Witness ==
    /\ cycle.kind = "done"
    /\ cycle.fails = 2
    /\ cycle.attempts = 3
    /\ cycle.sleeps = << backoff_factor, 2 * backoff_factor >>
    /\ cycle.source = "live"
    /\ ~cycle.snapshot_read

\* every attempt fails: two waits, none after the last attempt, then the snapshot
C29_Witness_AllFail ==
    /\ cycle.kind = "done"
    /\ cycle.fails = 3
    /\ cycle.attempts = 3
    /\ Len(cycle.sleeps) = 2
    /\ cycle.snapshot_read

(***************************************************************************)
(* Claims about the filter pipeline.                                       *)
(***************************************************************************)
\* the estimate and the two bounds of a row
Triple(row) == <<row.projected_points, row.confidence_lower, row.confidence_upper>>
Ids(df) == [i \in DOMAIN df |-> df[i].player_id]

\* C3: when the fetch fails on every attempt and the cycle ends with an empty
\* availability set, the injury filter returns the table it was given, no row
\* changed, and no exception occurs.
C3_EmptyAvailabilityPassesThrough ==
    ( /\ last.stage = "injury"
      /\ cycle.fails = max_retries + 1
      /\ cycle.raised = "no"
      /\ cycle.ret = EmptyDict ) =>
        (table = last.before /\ last.caught = "no")

C3_Witness ==
    /\ last.stage = "injury"
    /\ cycle.fails = max_retries + 1
    /\ cycle.source = "none"
    /\ cycle.ret = EmptyDict
    /\ Len(table) = 2
    /\ table[1].projected_points > 0
    /\ table = last.before
    /\ last.caught = "no"

\* C4: a filter stage that catches an exception returns every row as it was
\* when the stage began: the same estimate and the same two bounds.
C4_FailedStageLeavesTable ==
    (last.stage # "none" /\ last.caught # "no") =>
        /\ Len(table) = Len(last.before)
        /\ \A i \in DOMAIN table : Triple(table[i]) = Triple(last.before[i])

\* C6: a stage, whether it succeeds or catches a failure, returns a table with
\* the rows it was given: as many rows, the same player ids in the same places.
C6_RowsKept ==
    last.stage # "none" =>
        /\ Len(table) = Len(last.before)
        /\ Ids(table) = Ids(last.before)
        /\ Ids(table) = Ids(cfg.input)

C6_Witness ==
    /\ pc = "done"
    /\ order = << "bye", "injury", "bench" >>
    /\ Len(table) = 2
    /\ \E i \in DOMAIN table :
          cfg.input[i].projected_points > 0 /\ table[i].projected_points = 0

\* C7: in the table a stage returns, a row whose estimate the filters brought
\* to zero has both confidence bounds at zero.
C7_ZeroedRowHasZeroBounds ==
    \A i \in DOMAIN table :
        (cfg.input[i].projected_points # 0 /\ table[i].projected_points = 0) =>
            (table[i].confidence_lower = 0 /\ table[i].confidence_upper = 0)

C7_Witness ==
    /\ last.stage = "injury"
    /\ last.zeroed_count > 0
    /\ \E i \in DOMAIN table :
          /\ last.before[i].projected_points > 0
          /\ last.before[i].confidence_upper > 0
          /\ Triple(table[i]) = <<0, 0, 0>>

\* the stages a request with the given flags runs, in order
ExpectedOrder(flags) ==
    << "bye" >> \o (IF flags.injury_filter THEN << "injury" >> ELSE << >>)
               \o (IF flags.qb_benching_filter THEN << "bench" >> ELSE << >>)

\* C9: the stages run in the order bye week, injury, benching; the bye week
\* stage always runs, the other two exactly when their flag is set; a stage
\* starts only when the one before it has returned.
C9_StageOrder ==
    /\ Len(order) <= Len(ExpectedOrder(cfg))
    /\ order = SubSeq(ExpectedOrder(cfg), 1, Len(order))
    /\ pc = "done" => order = ExpectedOrder(cfg)
    /\ pc # "done" => (Len(order) < Len(ExpectedOrder(cfg))
                          /\ pc = ExpectedOrder(cfg)[Len(order) + 1])
    /\ last.stage = (IF order = << >> THEN "none" ELSE order[Len(order)])

C9_Witness ==
    /\ pc = "done"
    /\ cfg.injury_filter /\ cfg.qb_benching_filter
    /\ order = << "bye", "injury", "bench" >>
    /\ last.caught # "no"

\* the rows of a table whose stats id the mapper has no entry for
Unmapped(df) == { i \in DOMAIN df : df[i].player_id \notin DOMAIN gsis_to_sleeper }

\* C17: the injury filter and the benching filter leave the estimate and both
\* bounds of a row whose stats id has no mapping as they were, whatever the
\* availability set holds; on a table of such rows the stage catches no error
\* but the one of the fetch or of the summary of the availability set.
C17_UnmappedRowAvailable ==
    last.stage \in {"injury", "bench"} =>
        /\ \A i \in Unmapped(last.before) : Triple(table[i]) = Triple(last.before[i])
        /\ (Unmapped(last.before) = DOMAIN last.before /\ last.caught # "no") =>
              \/ last.caught = cycle.raised
              \/ /\ last.stage = "injury"
                 /\ cycle.raised = "no"
                 /\ cycle.ret.t = "dict"
                 /\ last.caught = get_injury_summary(cycle.ret).raised

\* an unmapped quarterback with points, next to a mapped one the filter zeroes
C17_Witness ==
    /\ last.stage \in {"injury", "bench"}
    /\ last.caught = "no"
    /\ last.zeroed_count = 1
    /\ \E i \in Unmapped(last.before) :
          /\ last.before[i].position = "QB"
          /\ last.before[i].projected_points > 0
          /\ Triple(table[i]) = Triple(last.before[i])
    /\ \E j \in DOMAIN table :
          /\ last.before[j].player_id = "g1"
          /\ last.before[j].projected_points > 0
          /\ Triple(table[j]) = <<0, 0, 0>>

\* an injury stage that got a record set and went through every row
InjuryStageRan ==
    /\ last.stage = "injury"
    /\ last.caught = "no"
    /\ cycle.raised = "no"
    /\ Truthy(cycle.ret)

\* the availability record of the i-th row's player: the empty record when the
\* set has none
RecordOfRow(i) ==
    LET sleeper_id == gsis_to_sleeper[last.before[i].player_id]
    IN  IF sleeper_id \in DOMAIN cycle.ret.v THEN cycle.ret.v[sleeper_id] ELSE EmptyDict

\* the rows the gate decides "zero" for and whose estimate was not zero
GateZeroes(i) ==
    /\ RecordDecision(RecordOfRow(i)) = "zero"
    /\ last.before[i].projected_points # 0

\* C30: after an injury stage that ran through the table, every row whose
\* stats id has a mapping has estimate and bounds 0 when the gate decides
\* "zero" for the mapped record and the estimate was not zero, and the three
\* values it had otherwise; its roster_status and injury_status columns hold
\* the two strings of the record; the counter is the number of rows zeroed.
C30_MappedRowsGated ==
    InjuryStageRan =>
        /\ \A i \in DOMAIN table \ Unmapped(last.before) :
              /\ GateZeroes(i) => Triple(table[i]) = <<0, 0, 0>>
              /\ ~GateZeroes(i) => Triple(table[i]) = Triple(last.before[i])
              /\ table[i].roster_status = RecordStatus(RecordOfRow(i), "status")
              /\ table[i].injury_status = RecordStatus(RecordOfRow(i), "injury_status")
        /\ last.zeroed_count =
              Cardinality({ i \in DOMAIN table \ Unmapped(last.before) : GateZeroes(i) })

\* g1 on IR with 20 points is zeroed and counted; g2, doubtful but with an
\* estimate of 0, keeps its upper bound and is not counted
C30_Witness ==
    /\ InjuryStageRan
    /\ last.zeroed_count = 1
    /\ \E i, j \in DOMAIN table :
          /\ i # j
          /\ table[i].player_id \in DOMAIN gsis_to_sleeper
          /\ last.before[i].projected_points > 0
          /\ Triple(table[i]) = <<0, 0, 0>>
          /\ Len(table[i].roster_status.v) + Len(table[i].injury_status.v) > 0
          /\ table[j].player_id \in DOMAIN gsis_to_sleeper
          /\ RecordDecision(RecordOfRow(j)) = "zero"
          /\ last.before[j].projected_points = 0
          /\ table[j].confidence_upper > 0

(***************************************************************************)
(* Claims about the position projector.                                    *)
(***************************************************************************)
Returned == p_out.kind \in {"weekly", "seasonal"} /\ p_out.raised = "no"

\* 0 <= lower <= estimate <= upper
WellOrdered(v) ==
    /\ f_le(Whole(0), v.confidence_lower)
    /\ f_le(v.confidence_lower, v.projected_points)
    /\ f_le(v.projected_points, v.confidence_upper)

\* C8: every projection predict_weekly or predict_seasonal of a trained
\* projector returns, whatever the history, has 0 <= lower <= estimate <= upper.
C8_BoundsOrdered == Returned => WellOrdered(p_out.v)

\* the same, for a projector fitted on at least two games of its position
C8_BoundsOrdered_TwoGamesFitted ==
    (Returned /\ ~model_params.position_std.nan) => WellOrdered(p_out.v)

C8_Witness_NegativeHistory ==
    /\ Returned
    /\ ~model_params.position_std.nan
    /\ Len(p_in.player_data) >= 2
    /\ \A i \in DOMAIN p_in.player_data : p_in.player_data[i].fantasy_points < 0
    /\ WellOrdered(p_out.v)

\* C18: predict_weekly and predict_seasonal of a projector that was not
\* fitted raise ValueError and return nothing; of a fitted projector they do
\* not raise it.
C18_PredictNeedsFit ==
    p_out.kind \in {"weekly", "seasonal"} =>
        /\ ~is_trained => (p_out.raised = "ValueError" /\ "v" \notin DOMAIN p_out)
        /\ is_trained => (p_out.raised = "no" /\ "projected_points" \in DOMAIN p_out.v)

\* a seasonal call that raised before the fit
C18_Witness ==
    /\ ~is_trained
    /\ p_out.kind = "seasonal"
    /\ p_out.raised = "ValueError"

C18_Witness_Fitted ==
    /\ is_trained
    /\ p_out.kind = "weekly"
    /\ p_out.raised = "no"
    /\ p_out.v.projected_points = Whole(10)

\* C19: predict_weekly of a trained projector, given an empty history, does
\* not fail: the estimate is the position mean of the fit (to two decimals)
\* and the bounds are that mean minus and plus 1.96 times the position
\* standard deviation of the fit, the lower one not below zero.
C19_EmptyHistoryGetsBaseline ==
    (is_trained /\ p_out.kind = "weekly" /\ p_in.player_data = << >>) =>
        LET position_mean == model_params.position_mean
            spread == f_times(model_params.position_std, 196, 100)
            estimate == py_round(position_mean, 2)
        IN  /\ p_out.raised = "no"
            /\ p_out.v.projected_points = estimate
            /\ p_out.v.confidence_lower =
                  py_min(py_round(py_max(Whole(0), f_sub(position_mean, spread)), 2),
                         estimate)
            /\ p_out.v.confidence_upper =
                  py_max(py_round(f_add(position_mean, spread), 2), estimate)

\* quarterbacks fitted on games of 10 and 20 points: mean 15, deviation 7.071
C19_Witness ==
    /\ is_trained
    /\ position = "QB"
    /\ p_out.kind = "weekly"
    /\ p_in.player_data = << >>
    /\ model_params.position_mean = Whole(15)
    /\ ~model_params.position_std.nan
    /\ p_out.v.projected_points = Whole(15)
    /\ f_lt(Whole(0), p_out.v.confidence_lower)
    /\ f_lt(p_out.v.confidence_lower, Whole(15))
    /\ f_lt(Whole(15), p_out.v.confidence_upper)

(***************************************************************************)
(* Claims about the projection engine.                                     *)
(***************************************************************************)
BatchCall == request.op \in {"weekly", "seasonal"}
\* the prepared stats of a list of seasons
PreparedData(seasons) == Frame(prepare_training_data(load_player_stats(seasons)))
\* the roster rows of the requested player in the requested season
RosterRowsOf(args) ==
    SelectSeq(load_rosters(<< args.season >>), LAMBDA r : r.gsis_id = args.player_id)

\* C12: the engine starts not fitted; a fit that returns leaves it fitted; a
\* batch request on an engine that is not fitted first runs a fit over the
\* default three seasons and leaves the engine fitted (if the load of that fit
\* raises, the request raises with it and returns no projection); a batch
\* request on a fitted engine runs no fit; a fitted engine stays fitted.
C12_FitLifecycle ==
    /\ request.op = "none" => ~is_fitted
    /\ (request.op = "fit" /\ request.raised = "no") => is_fitted
    /\ (BatchCall /\ ~request.before.is_fitted) =>
          \/ /\ request.fit_ran = default_seasons
             /\ is_fitted
             /\ cached_training_data = PreparedData(default_seasons)
          \/ /\ request.raised = "LoadError"
             /\ request.fit_ran = << >>
             /\ request.ret = PyNone
    /\ (BatchCall /\ request.before.is_fitted) =>
          (request.fit_ran = << >> /\ TheEngine = request.before)
    /\ (request.op # "none" /\ request.before.is_fitted) => is_fitted

C12_Witness ==
    /\ request.op = "weekly"
    /\ ~request.before.is_fitted
    /\ request.fit_ran = default_seasons
    /\ is_fitted
    /\ pc = "done"
    /\ Len(table) >= 2

\* C13: a player-detail request made on an engine that is not fitted, for a
\* player on the roster with a supported position, with a week when it is
\* weekly and with every load answered, fits the engine and returns a
\* projection.
C13_PlayerRequestAutoFits ==
    ( /\ request.op = "player"
      /\ ~request.before.is_fitted
      /\ RosterRowsOf(request.args) # << >>
      /\ RosterRowsOf(request.args)[1].position \in ProjectorPositions
      /\ request.raised \notin {"LoadError", "ValueError: week is required"} ) =>
        (request.raised = "no" /\ is_fitted)

\* C14: after an explicit fit on a fitted engine has returned, the cached
\* training data is the prepared data of the seasons of that fit, and the
\* parameters of every trained projector are computed from that data.
C14_RefitOverwrites ==
    (request.op = "fit" /\ request.raised = "no" /\ request.before.is_fitted) =>
        /\ cached_training_data = PreparedData(request.fit_ran)
        /\ \A pos \in ProjectorPositions :
              projectors[pos].is_trained =>
                 projectors[pos].model_params = fit(pos, cached_training_data.v)

\* C20: a player-detail request for a player id that is not on the roster of
\* the target season raises, returns no projection and leaves the engine as
\* it was; when the week is given and the roster is loaded, what it raises is
\* the not-found error.
C20_UnknownPlayerRaises ==
    (request.op = "player" /\ RosterRowsOf(request.args) = << >>) =>
        /\ request.raised # "no"
        /\ request.ret = PyNone
        /\ TheEngine = request.before
        /\ request.raised \notin {"LoadError", "ValueError: week is required"} =>
              request.raised = "ValueError: not found"

C20_Witness ==
    /\ request.op = "player"
    /\ request.args.player_id = "g9"
    /\ request.before.is_fitted
    /\ request.raised = "ValueError: not found"
    /\ TheEngine = request.before

\* the roster without its k-th player
RosterWithout(rosters, k) ==
    [i \in 1..(Len(rosters) - 1) |-> IF i < k THEN rosters[i] ELSE rosters[i + 1]]

\* why the loop of a batch request gives no row for a roster player
SkipReason(e, player) ==
    IF player.position \notin ProjectorPositions THEN "position"
    ELSE IF player_history(e.training_data.v, player.gsis_id) = << >> THEN "history"
    ELSE IF ~e.projectors[player.position].is_trained THEN "raises"
    ELSE "none"

\* the sorted table a batch request with the arguments of the last one makes
\* of a roster
BatchTableOf(rosters) ==
    sort_by_points(batch_rows(TheEngine, request.op,
                              IF request.op = "weekly" THEN request.args.week ELSE 0,
                              request.args.season, rosters))

\* C21: a batch request whose loads succeed returns a table; a roster player
\* with an unsupported position, without history or whose predict call raises
\* has no row in it, every other roster player has one, and the table is the
\* one the request makes of the roster without that player.
C21_SkippedPlayerLeavesBatch ==
    (BatchCall /\ request.raised # "LoadError") =>
        /\ request.raised = "no"
        /\ LET rosters == load_rosters(<< request.args.season >>)
           IN  \A k \in DOMAIN rosters :
                  IF SkipReason(TheEngine, rosters[k]) = "none"
                  THEN \E i \in DOMAIN request.ret :
                          request.ret[i].player_id = rosters[k].gsis_id
                  ELSE
                     /\ \A i \in DOMAIN request.ret :
                           request.ret[i].player_id # rosters[k].gsis_id
                     /\ request.ret = BatchTableOf(RosterWithout(rosters, k))

\* a request that skips players for each of the three reasons and still
\* returns rows, of players listed before and after them
C21_Witness ==
    /\ BatchCall
    /\ request.raised = "no"
    /\ LET rosters == load_rosters(<< request.args.season >>)
       IN  /\ { SkipReason(TheEngine, rosters[k]) : k \in DOMAIN rosters } =
                 {"position", "history", "raises", "none"}
           /\ { request.ret[i].player_id : i \in DOMAIN request.ret } = {"g1", "g2"}

\* what the projector of a roster row's position returns for the season
SeasonalOf(player) ==
    predict_seasonal(player.position, projectors[player.position].model_params,
                     player_history(cached_training_data.v, player.gsis_id),
                     request.args.season)

\* the table of a returned seasonal request is the one the projectors made
SeasonalTableUntouched ==
    (request.op = "seasonal" /\ request.raised = "no") =>
        /\ pc = "done"
        /\ order = << >>
        /\ last = NoStage
        /\ table = request.ret
        /\ \A i \in DOMAIN table :
              \E k \in DOMAIN LeagueRosters :
                 /\ LeagueRosters[k].gsis_id = table[i].player_id
                 /\ LeagueRosters[k].season = request.args.season
                 /\ Triple(table[i]) =
                       << number(SeasonalOf(LeagueRosters[k]).projected_points),
                          number(SeasonalOf(LeagueRosters[k]).confidence_lower),
                          number(SeasonalOf(LeagueRosters[k]).confidence_upper) >>

\* C22: a seasonal batch request runs no bye-week, injury or benching stage:
\* the rows it returns carry the estimate and bounds of the position
\* projector, whatever the schedule and the availability set hold, and the
\* step that makes it leaves the fetcher's files and the record of the last
\* fetch cycle as they were.
C22_SeasonalSkipsStages ==
    /\ []SeasonalTableUntouched
    /\ [][request'.op = "seasonal" => UNCHANGED fetchVars]_vars

\* a seasonal table with a row of KC, which rests in week 5, returned after a
\* weekly request whose injury stage fetched the availability set
C22_Witness ==
    /\ request.op = "seasonal"
    /\ request.raised = "no"
    /\ pc = "done"
    /\ cycle # NoCycle
    /\ cfg.injury_filter
    /\ \E i \in DOMAIN table :
          /\ table[i].player_id = "g1"
          /\ table[i].team = "KC"
          /\ table[i].projected_points > 0
    /\ Len(table) >= 3

\* C23: the table a weekly batch request returns, after the availability
\* filters have run, has its rows in non-increasing order of the estimate
\* they carry.
C23_ReturnedTableRanked ==
    (request.op = "weekly" /\ request.raised = "no" /\ pc = "done") =>
        \A i, j \in DOMAIN table :
            i < j => table[i].projected_points >= table[j].projected_points

(***************************************************************************)
(* Claims about the identity mapper.                                       *)
(***************************************************************************)
\* a row that supplies both ids non-empty
WellFormed(row) ==
    /\ row.gsis_id.t = "str" /\ row.sleeper_id.t = "str"
    /\ \E i \in DOMAIN row.gsis_id.v : row.gsis_id.v[i] # " "
    /\ \E i \in DOMAIN row.sleeper_id.v : row.sleeper_id.v[i] # " "

Built == mapper.kind = "built" /\ mapping_file.state = "rows"

\* C24: constructing the mapper raises nothing, and every well-formed row of
\* the table, before or after a malformed one, has its two ids in the mapper.
C24_MalformedRowSkipped ==
    Built =>
        /\ mapper.raised = "no"
        /\ \A i \in DOMAIN mapping_file.rows :
              WellFormed(mapping_file.rows[i]) =>
                 /\ strip(mapping_file.rows[i].gsis_id.v) \in DOMAIN mapper.gsis_to_sleeper
                 /\ strip(mapping_file.rows[i].sleeper_id.v) \in DOMAIN mapper.sleeper_to_gsis

\* the same for tables whose malformed rows have both cells, one or both empty
C24_EmptyCellRowSkipped ==
    (Built /\ \A i \in DOMAIN mapping_file.rows :
                 /\ mapping_file.rows[i].gsis_id # PyNone
                 /\ mapping_file.rows[i].sleeper_id # PyNone) =>
        /\ mapper.raised = "no" /\ mapper.caught = "no"
        /\ \A i \in DOMAIN mapping_file.rows :
              WellFormed(mapping_file.rows[i]) =>
                 /\ strip(mapping_file.rows[i].gsis_id.v) \in DOMAIN mapper.gsis_to_sleeper
                 /\ strip(mapping_file.rows[i].sleeper_id.v) \in DOMAIN mapper.sleeper_to_gsis

\* C25: in a table every row of which is read, a row that repeats a stats id
\* or an availability id of an earlier loaded row is skipped: the two dicts are
\* those of the rows that repeat no id.
C25_DuplicateRowSkipped ==
    (Built /\ mapper.caught = "no") =>
        /\ mapper.gsis_to_sleeper =
              load_rows_first_wins(mapping_file.rows, 1, NoMappings).gsis_to_sleeper
        /\ mapper.sleeper_to_gsis =
              load_rows_first_wins(mapping_file.rows, 1, NoMappings).sleeper_to_gsis

(***************************************************************************)
(* Claims about the scoring.                                               *)
(***************************************************************************)
\* the points of one unit of each stat, in thousandths, under every preset
ReferenceWeights ==
    [passing_yards |-> 40, passing_tds |-> 4000, interceptions |-> 0 - 2000,
     passing_2pt |-> 2000,
     rushing_yards |-> 100, rushing_tds |-> 6000, rushing_2pt |-> 2000,
     receiving_yards |-> 100, receiving_tds |-> 6000, receiving_2pt |-> 2000,
     fumbles_lost |-> 0 - 2000]
\* the bonus of one reception, in thousandths
ReceptionBonus == [standard |-> 0, half_ppr |-> 500, ppr |-> 1000]

\* the sum of stats[k] * weight[k] over the keys of a set, in thousandths
RECURSIVE ReferenceSum(_, _, _)
ReferenceSum(stats, weight, keys) ==
    IF keys = {} THEN 0
    ELSE LET k == CHOOSE x \in keys : TRUE
         IN  (stats[k].v * weight[k]) \div 1000 + ReferenceSum(stats, weight, keys \ {k})

\* the reference points of a stat line under a preset: absent keys count zero
ReferencePoints(preset, stats) ==
    LET weight == [receptions |-> ReceptionBonus[preset]] @@ ReferenceWeights
    IN  ReferenceSum(stats, weight, DOMAIN stats \cap DOMAIN weight)

Receptions(stats) == IF "receptions" \in DOMAIN stats THEN stats["receptions"].v ELSE 0

\* C26: calculate_fantasy_points returns the reference weighted sum, absent
\* keys counting zero, rounded to two decimals; for the same stat line the
\* unrounded points under ppr are those under standard plus 1.0 x receptions
\* and those under half_ppr plus 0.5 x receptions; an empty stat line gives 0.
C26_ScoringIsWeightedSum ==
    sc_points.kind = "returned" =>
        /\ sc_points.v = py_round(Float(ReferencePoints(sc_system.preset, sc_stats)), 2)
        /\ weighted_points(get_scoring_system("ppr"), sc_stats).v =
              weighted_points(get_scoring_system("standard"), sc_stats).v
                 + Receptions(sc_stats)
        /\ 2 * weighted_points(get_scoring_system("ppr"), sc_stats).v =
              2 * weighted_points(get_scoring_system("half_ppr"), sc_stats).v
                 + Receptions(sc_stats)
        /\ sc_stats = << >> => sc_points.v = Whole(0)

\* 12.6 receptions and one passing yard under half_ppr: 6.34 points
C26_Witness ==
    /\ sc_points.kind = "returned"
    /\ sc_system.preset = "half_ppr"
    /\ DOMAIN sc_stats = {"receptions", "passing_yards"}
    /\ sc_stats["receptions"] = Float(12600)
    /\ sc_stats["passing_yards"] = Whole(1)
    /\ sc_points.v = Float(6340)

\* C27: an engine made with a name that is none of standard, ppr, half_ppr
\* does not come into being: the constructor raises ValueError, and no points
\* are ever calculated; with one of the three names it is made with that
\* preset.
C27_UnknownPresetRejected ==
    /\ (sc_system.state # "none" /\ sc_name \notin {"standard", "ppr", "half_ppr"}) =>
          /\ sc_system.state = "raised"
          /\ sc_system.raised = "ValueError"
          /\ sc_points.kind = "none"
    /\ (sc_system.state # "none" /\ sc_name \in {"standard", "ppr", "half_ppr"}) =>
          /\ sc_system.state = "made"
          /\ sc_system.preset = sc_name
    /\ sc_points.kind = "returned" => sc_name \in {"standard", "ppr", "half_ppr"}

C27_Witness ==
    /\ sc_name = "PPR"
    /\ sc_system.state = "raised"
    /\ sc_system.raised = "ValueError"
    /\ "receptions" \in DOMAIN sc_stats

(***************************************************************************)
(* Claims about the bye week filter.                                       *)
(***************************************************************************)
\* the weeks of 1..18 in which a team has no game, at home or away
FreeWeeks(team) ==
    { w \in 1..18 :
        ~\E g \in cfg.schedules.v :
            g.week = w /\ (g.home_team = team \/ g.away_team = team) }

\* the team rests in the target week, and in no other week
OnBye(team) == FreeWeeks(team) = {cfg.week}

\* C31: the bye week filter zeroes the estimate and both bounds of every row
\* whose team's bye week is the target week and changes no other row; the bye
\* week of a team is the one week of 1..18 without a game of it, and a team
\* with no such week or with several has none: its rows stay, and the filter
\* catches nothing.
C31_ByeWeekFilter ==
    (last.stage = "bye" /\ cfg.schedules.t = "games") =>
        /\ last.caught = "no"
        /\ Len(table) = Len(last.before)
        /\ \A i \in DOMAIN table :
              IF OnBye(last.before[i].team)
              THEN /\ Triple(table[i]) = <<0, 0, 0>>
                   /\ table[i].player_id = last.before[i].player_id
              ELSE table[i] = last.before[i]

\* KC rests in week 5 only and its row is zeroed, the row of SF stays
C31_Witness ==
    /\ last.stage = "bye"
    /\ cfg.schedules.t = "games"
    /\ FreeWeeks("KC") = {5}
    /\ Len(table) = 2
    /\ \E i, j \in DOMAIN table :
          /\ last.before[i].team = "KC" /\ last.before[i].projected_points = 20
          /\ Triple(table[i]) = <<0, 0, 0>>
          /\ last.before[j].team = "SF" /\ table[j].projected_points = 20

\* SF has home games and rests in weeks 5 and 6: its row stays in week 5
C31_Witness_Several ==
    /\ last.stage = "bye"
    /\ cfg.schedules.t = "games"
    /\ FreeWeeks("SF") = {5, 6}
    /\ \E g \in cfg.schedules.v : g.home_team = "SF"
    /\ last.caught = "no"
    /\ last.zeroed_count = 0
    /\ \E j \in DOMAIN table :
          table[j].team = "SF" /\ table[j].projected_points = 20

\* a team with no free week: nothing of it is zeroed
C31_Witness_NoBye ==
    /\ last.stage = "bye"
    /\ cfg.schedules.t = "games"
    /\ FreeWeeks("SF") = {}
    /\ \E j \in DOMAIN table :
          /\ table[j].team = "SF" /\ table[j].projected_points = 20
    /\ last.zeroed_count = 0

(***************************************************************************)
(* Claims about the benching filter.                                       *)
(***************************************************************************)
\* a benching stage that went through the table with a non-empty record set
BenchStageRan ==
    /\ last.stage = "bench"
    /\ last.caught = "no"
    /\ cycle.raised = "no"
    /\ Truthy(cycle.ret)

\* the depth chart order of the record of the i-th row's player: None when the
\* player has no mapping, no record or no order
OrderOfRow(i) ==
    LET gsis_id == last.before[i].player_id
    IN  IF gsis_id \notin DOMAIN gsis_to_sleeper THEN PyNone
        ELSE IF gsis_to_sleeper[gsis_id] \notin DOMAIN cycle.ret.v THEN PyNone
        ELSE cycle.ret.v[gsis_to_sleeper[gsis_id]].v.depth_chart_order

\* a quarterback row with an estimate whose record has an order above 1
BenchedQB(i) ==
    /\ last.before[i].position = "QB"
    /\ OrderOfRow(i).t = "int"
    /\ OrderOfRow(i).v > 1
    /\ last.before[i].projected_points # 0

\* C32: the benching filter zeroes the estimate and both bounds of the QB rows
\* with a mapping whose record has a depth chart order above 1 and whose
\* estimate is not zero; the rows of other positions, the QB rows with order 1,
\* without order or without mapping, and the rows at zero are as they were.
C32_BenchingTouchesBenchedQBsOnly ==
    BenchStageRan =>
        /\ Len(table) = Len(last.before)
        /\ \A i \in DOMAIN table :
              IF BenchedQB(i)
              THEN table[i] = [last.before[i] EXCEPT !.projected_points = 0,
                                                     !.confidence_lower = 0,
                                                     !.confidence_upper = 0]
              ELSE table[i] = last.before[i]
        /\ last.zeroed_count = Cardinality({ i \in DOMAIN table : BenchedQB(i) })

\* the quarterback g1, second on the depth chart, is zeroed; the running back
\* g2, whose record has an order too, is not looked at
C32_Witness ==
    /\ BenchStageRan
    /\ cycle.ret = normalize_player_data(PayloadTextOrder)
    /\ Len(table) = 2
    /\ \E i, j \in DOMAIN table :
          /\ last.before[i].player_id = "g1" /\ last.before[i].projected_points = 20
          /\ Triple(table[i]) = <<0, 0, 0>>
          /\ last.before[j].player_id = "g2" /\ table[j].projected_points = 20
    /\ last.zeroed_count = 1

\* a starting quarterback and a running back third on the depth chart
C32_Witness_Starter ==
    /\ BenchStageRan
    /\ cycle.ret = normalize_player_data(PayloadBenched)
    /\ \E i, j \in DOMAIN table :
          /\ last.before[i].player_id = "g1" /\ table[i].projected_points = 20
          /\ last.before[j].player_id = "g2" /\ table[j].projected_points = 20
    /\ last.zeroed_count = 0

(***************************************************************************)
(* Claims about the blended estimate of predict_weekly.                    *)
(***************************************************************************)
\* the weighted blend of the recent, season and full-history averages of the
\* history the call was made with, clamped at 0 and rounded as the estimate is
BlendOfCall ==
    py_max(Whole(0),
           py_round(weighted_projection(position, p_in.player_data, p_in.season), 2))

WeeklyWithHistory ==
    /\ is_trained
    /\ p_out.kind = "weekly"
    /\ p_out.raised = "no"
    /\ Len(p_in.player_data) >= 1

\* C33: for a player with at least one historical game the estimate of
\* predict_weekly is the weighted blend of that player's own averages, clamped
\* at 0, and not the position baseline.
C33_BaselineOnlyWithoutHistory ==
    WeeklyWithHistory => p_out.v.projected_points = BlendOfCall

\* what the code does: the blend is kept when it is not exactly zero
C33_NonZeroBlendKept ==
    ( /\ WeeklyWithHistory
      /\ weighted_projection(position, p_in.player_data, p_in.season) # Whole(0) ) =>
        p_out.v.projected_points = BlendOfCall

\* a history of one game of 0 points: the estimate is the position mean
C33_ZeroHistoryGetsBaseline ==
    /\ WeeklyWithHistory
    /\ Len(p_in.player_data) = 1
    /\ p_in.player_data[1].fantasy_points = 0
    /\ model_params.position_mean = Whole(15)
    /\ p_out.v.projected_points = Whole(15)

(***************************************************************************)
(* Claims about the lookups of the mapper.                                 *)
(***************************************************************************)
\* the rows of the file that load_rows enters in the dicts
EnteredRows ==
    { i \in DOMAIN mapping_file.rows :
        /\ \A j \in 1..i : /\ mapping_file.rows[j].gsis_id # PyNone
                            /\ mapping_file.rows[j].sleeper_id # PyNone
        /\ WellFormed(mapping_file.rows[i]) }

\* no two entered rows have the same stats id or the same availability id
NoRepeatedId ==
    \A i, j \in EnteredRows :
        i # j =>
          /\ strip(mapping_file.rows[i].gsis_id.v) # strip(mapping_file.rows[j].gsis_id.v)
          /\ strip(mapping_file.rows[i].sleeper_id.v) #
                strip(mapping_file.rows[j].sleeper_id.v)

\* C34: for every table loaded, an id that has an answer in one direction gets
\* itself back when the answer is asked in the other direction, and
\* has_mapping of an id is true exactly when the forward lookup answers.
C34_LookupsAreInverse ==
    lookup.kind = "done" =>
        /\ lookup.forward # PyNone => lookup.back_of_forward = lookup.id
        /\ lookup.backward # PyNone => lookup.forward_of_backward = lookup.id
        /\ lookup.has_mapping <=> lookup.forward # PyNone

\* what the code does: the lookups are inverse for a table in which no id is
\* repeated, and has_mapping agrees with the forward lookup for every table
C34_InverseWithoutRepeatedId ==
    lookup.kind = "done" =>
        /\ (mapping_file.state = "rows" /\ NoRepeatedId) =>
              /\ lookup.forward # PyNone => lookup.back_of_forward = lookup.id
              /\ lookup.backward # PyNone => lookup.forward_of_backward = lookup.id
        /\ lookup.has_mapping <=> lookup.forward # PyNone

\* the table g1,s1 then g1,s2: s1 maps back to g1, and g1 maps to s2
C34_RepeatedIdBreaksRoundTrip ==
    /\ lookup.kind = "done"
    /\ mapping_file.state = "rows"
    /\ Len(mapping_file.rows) = 2
    /\ lookup.id = PyStr(S_s1)
    /\ lookup.backward = PyStr(S_g1)
    /\ lookup.forward_of_backward = PyStr(S_s2)

(***************************************************************************)
(* Claims about what a fit leaves behind.                                  *)
(***************************************************************************)
\* C35: whenever the engine is fitted, the projector of every position is
\* trained, and a predict call the engine makes for a player request on a
\* fitted engine does not fail with the error of an untrained projector.
C35_FittedMeansAllTrained ==
    /\ is_fitted => \A pos \in ProjectorPositions : projectors[pos].is_trained
    /\ (request.op = "player" /\ request.before.is_fitted) =>
          request.raised # "ValueError: not fitted"

\* the first half alone
C35_FittedFlags ==
    is_fitted => \A pos \in ProjectorPositions : projectors[pos].is_trained

\* the second half alone
C35_NoStateErrorAfterFit ==
    (request.op = "player" /\ request.before.is_fitted) =>
        request.raised # "ValueError: not fitted"

\* what the code does: a fitted engine has trained the projectors of the
\* positions that have rows in its training data
C35_TrainedWherePositionHasRows ==
    is_fitted =>
        \A pos \in ProjectorPositions :
            (\E i \in DOMAIN cached_training_data.v :
                cached_training_data.v[i].position = pos) => projectors[pos].is_trained

\* a fit call that raised
FitRaised == request.op = "fit" /\ request.raised # "no"

\* the place of a position in the loop of fit
PlaceInLoop(pos) == CHOOSE k \in DOMAIN ProjectorOrder : ProjectorOrder[k] = pos

\* the seasons a fit call loads
SeasonsOfFit ==
    IF request.args.seasons = PyNone THEN default_seasons ELSE request.args.seasons.v

\* C36 as stated: a fit that raises, in the load of the stats or in the fit of
\* one projector, leaves the fitted flag, the cached training data and every
\* projector's trained flag and parameters as they were before the call.
C36_FailedFitLeavesEngine ==
    FitRaised => TheEngine = request.before

\* C36 as amended: a fit that raises leaves the fitted flag and the cached
\* training data as they were; when the load of the stats raised, every
\* projector is as it was; when the fit of one projector raised, the
\* projectors fitted before it hold the parameters of the new data, and the
\* projectors after it are as they were.
C36_FailedFitKeepsFlagAndData ==
    FitRaised =>
        /\ is_fitted = request.before.is_fitted
        /\ cached_training_data = request.before.training_data
        /\ request.raised = "LoadError" => projectors = request.before.projectors
        /\ request.raised = "FitError" =>
              LET new_data == PreparedData(SeasonsOfFit).v
                  failing == PlaceInLoop(request.args.outage)
              IN  \A pos \in ProjectorPositions :
                     /\ ( /\ PlaceInLoop(pos) < failing
                          /\ \E i \in DOMAIN new_data : new_data[i].position = pos ) =>
                            projectors[pos] =
                               [is_trained |-> TRUE, model_params |-> fit(pos, new_data)]
                     /\ PlaceInLoop(pos) > failing =>
                            projectors[pos] = request.before.projectors[pos]

\* a fit of 2023 on an engine fitted on the default seasons, in which the fit
\* of the RB projector raises: the QB projector has new parameters, the cached
\* data is that of the earlier fit
C36_Witness ==
    /\ FitRaised
    /\ request.raised = "FitError"
    /\ request.args.outage = "RB"
    /\ request.before.is_fitted
    /\ is_fitted
    /\ cached_training_data = request.before.training_data
    /\ cached_training_data = PreparedData(default_seasons)
    /\ projectors["QB"] # request.before.projectors["QB"]
    /\ projectors["QB"].model_params = fit("QB", PreparedData(<< 2023 >>).v)
    /\ projectors["WR"] = request.before.projectors["WR"]

\* a fit whose load of the stats raises
C36_Witness_LoadFails ==
    /\ FitRaised
    /\ request.raised = "LoadError"
    /\ request.before.is_fitted
    /\ TheEngine = request.before

(***************************************************************************)
(* Claims about what a filter stage may change.                            *)
(***************************************************************************)
TripleColumns == {"projected_points", "confidence_lower", "confidence_upper"}

\* the i-th row after the stage has every column it had before the stage,
\* with the value it had, the three columns of the estimate aside
RowFramed(i) ==
    /\ DOMAIN last.before[i] \subseteq DOMAIN table[i]
    /\ \A column \in DOMAIN last.before[i] \ TripleColumns :
          table[i][column] = last.before[i][column]

\* C37: after a stage, whether it succeeded or caught a failure, the table has
\* the rows it had in the same places, every row has its player id, position,
\* team (and week and season) unchanged, and its estimate and bounds are
\* either the three values it had or 0, 0 and 0.
C37_StagesOnlyZeroTriples ==
    last.stage # "none" =>
        /\ Len(table) = Len(last.before)
        /\ \A i \in DOMAIN table :
              /\ RowFramed(i)
              /\ \/ Triple(table[i]) = Triple(last.before[i])
                 \/ Triple(table[i]) = <<0, 0, 0>>

\* an injury stage that zeroed the second row of the table and left the first
C37_Witness ==
    /\ last.stage = "injury"
    /\ Len(table) = 2
    /\ Triple(last.before[1]) = <<20, 15, 25>>
    /\ Triple(table[1]) = <<20, 15, 25>>
    /\ Triple(last.before[2]) = <<20, 15, 25>>
    /\ Triple(table[2]) = <<0, 0, 0>>
    /\ table[2].player_id = last.before[2].player_id

\* a bye stage that brought a row with estimate 0 and upper bound 5 to 0, 0, 0
C37_Witness_Bye ==
    /\ last.stage = "bye"
    /\ \E i \in DOMAIN table :
          /\ Triple(last.before[i]) = <<0, 0, 5>>
          /\ Triple(table[i]) = <<0, 0, 0>>

(***************************************************************************)
(* Claims about what a fetch cycle leaves on disk.                         *)
(***************************************************************************)
\* a step that is a fetch cycle: the clock stands, and cycle' is its record
CycleStep == now' = now /\ cycle'.kind = "done"

\* the live fetch of the cycle got an answer that has a length, so that the
\* snapshot was written, and the write succeeded
LiveWritten ==
    /\ cycle'.fails <= max_retries
    /\ has_len(cycle'.doc)
    /\ cycle'.save_outcome = "ok"

\* the file that holds a payload stamped with the time of its fetch
SnapshotOf(doc, t) ==
    TextFile(json_dump(PyDict([timestamp |-> isoformat(t), data |-> doc])))

\* C38: the snapshot on disk is that of the most recent live fetch that
\* succeeded and whose write succeeded: a cycle that wrote leaves the payload
\* it fetched, stamped with its time, and every other cycle leaves the file as
\* it found it; a cycle whose fetch failed on every attempt leaves the
\* snapshot and the id cache as it found them.
C38_SnapshotIsLastWritten ==
    [][ CycleStep =>
          /\ LiveWritten => snapshot' = SnapshotOf(cycle'.doc, now)
          /\ ~LiveWritten => snapshot' = snapshot
          /\ cycle'.fails = max_retries + 1 =>
                (snapshot' = snapshot /\ ir_cache' = ir_cache) ]_vars

\* what the code does: a cycle that wrote leaves its payload, a cycle whose
\* every attempt failed leaves both files, and a cycle whose write did not
\* succeed leaves the file it found or a file that cannot be read
C38_FailedFetchTouchesNothing ==
    [][ CycleStep =>
          /\ LiveWritten => snapshot' = SnapshotOf(cycle'.doc, now)
          /\ ~LiveWritten => snapshot' \in {snapshot, CorruptFile}
          /\ cycle'.fails = max_retries + 1 =>
                (snapshot' = snapshot /\ ir_cache' = ir_cache) ]_vars

\* a snapshot that was written is lost to a later write that fails
C38_SnapshotLost ==
    /\ cycle.kind = "done"
    /\ cycle.fails = 0
    /\ cycle.save_outcome = "dump_fails"
    /\ live = NoLive
    /\ snapshot = CorruptFile
    /\ now = TickHours

(***************************************************************************)
(* Claims about the rows of unavailable players in the returned table.     *)
(***************************************************************************)
\* the table as the injury stage returned it, after a bye stage and an injury
\* stage that caught nothing, the injury stage with a non-empty record set
FiltersRan == InjuryStageRan /\ cfg.schedules.t = "games"

\* the gate decides "zero" for the record the i-th row's stats id maps to
GatedOut(i) ==
    /\ last.before[i].player_id \in DOMAIN gsis_to_sleeper
    /\ RecordDecision(RecordOfRow(i)) = "zero"

\* C39 as stated: after filters that ran without error on a non-empty
\* availability set, every row whose team is on bye in the target week and
\* every row whose mapped record the gate decides "zero" for has estimate and
\* both bounds 0, whatever the projector had produced.
C39_UnavailableRowsAllZero ==
    FiltersRan =>
        \A i \in DOMAIN table :
            (OnBye(table[i].team) \/ GatedOut(i)) => Triple(table[i]) = <<0, 0, 0>>

\* C39 as amended: every row whose team is on bye has estimate and both bounds
\* 0; every row whose mapped record the gate decides "zero" for has estimate
\* 0, and both bounds 0 when the estimate of the projector was not 0.
C39_UnavailableRowsZeroed ==
    FiltersRan =>
        \A i \in DOMAIN table :
            /\ OnBye(table[i].team) => Triple(table[i]) = <<0, 0, 0>>
            /\ GatedOut(i) =>
                  /\ table[i].projected_points = 0
                  /\ cfg.input[i].projected_points # 0 => Triple(table[i]) = <<0, 0, 0>>

\* KC plays in week 5; g1, on injured reserve, had 20 points and is at 0, 0, 0;
\* g2, out, had an estimate of 0 and keeps its upper bound of 5
C39_Witness ==
    /\ FiltersRan
    /\ ~OnBye("KC") /\ ~OnBye("SF")
    /\ cycle.ret = normalize_player_data(PayloadInjured)
    /\ Len(table) = 2
    /\ \E i, j \in DOMAIN table :
          /\ table[i].player_id = "g1" /\ GatedOut(i)
          /\ Triple(cfg.input[i]) = <<20, 15, 25>>
          /\ Triple(table[i]) = <<0, 0, 0>>
          /\ table[j].player_id = "g2" /\ GatedOut(j)
          /\ Triple(cfg.input[j]) = <<0, 0, 5>>
          /\ Triple(table[j]) = <<0, 0, 5>>

\* a row of a team on bye whose player is not gated out
C39_Witness_Bye ==
    /\ FiltersRan
    /\ OnBye("KC")
    /\ \E i \in DOMAIN table :
          /\ table[i].team = "KC" /\ ~GatedOut(i)
          /\ Triple(cfg.input[i]) = <<0, 0, 5>>
          /\ Triple(table[i]) = <<0, 0, 0>>

====
